---- MODULE Spec2Model ----
(***************************************************************************)
(* Clipboard Hub v6: the ingest and persistence pipeline of                *)
(* content-script.js together with the background blob store.              *)
(*                                                                         *)
(* Strings are sequences of one-character strings (<<>> is the empty       *)
(* string), so that trimEnd, slice, startsWith and hash32 are computed     *)
(* character by character.  A JavaScript object is a record that holds     *)
(* exactly the fields the code assigned; a field the code never assigned   *)
(* is absent from the record, as it is undefined in the object.            *)
(***************************************************************************)
EXTENDS Integers, Sequences, FiniteSets, TLC

(***************************************************************************)
(* Bounds of the exploration.                                              *)
(***************************************************************************)
MaxSubmits == 2
MaxTicks == 2
MaxReloads == 1
MaxClears == 1
MaxToggles == 1
MaxCopies == 1
MaxSigned == 2
MaxPastes == 3
MaxEntries == 3
MaxTypes == 2
MaxBundles == 2
MaxLegacy == 3

(***************************************************************************)
(* Program constants.                                                      *)
(***************************************************************************)
INGEST_DEDUP_WINDOW_MS == 900
IMAGE_SOFT_LIMIT == 2 * 1024 * 1024

\* The clock advances in half windows, from a positive epoch value.
TickMs == INGEST_DEDUP_WINDOW_MS \div 2
StartTime == 2 * INGEST_DEDUP_WINDOW_MS
EndTime == StartTime + MaxTicks * TickMs

(***************************************************************************)
(* Characters and strings.                                                 *)
(***************************************************************************)
CharCode ==
  "0" :> 48 @@ "1" :> 49 @@ "2" :> 50 @@ "3" :> 51 @@ "4" :> 52 @@
  "5" :> 53 @@ "6" :> 54 @@ "7" :> 55 @@ "8" :> 56 @@ "9" :> 57 @@
  "a" :> 97 @@ "b" :> 98 @@ "c" :> 99 @@ "d" :> 100 @@ "e" :> 101 @@
  "f" :> 102 @@ "g" :> 103 @@ "h" :> 104 @@ "i" :> 105 @@ "j" :> 106 @@
  "k" :> 107 @@ "l" :> 108 @@ "m" :> 109 @@ "n" :> 110 @@ "o" :> 111 @@
  "p" :> 112 @@ "q" :> 113 @@ "r" :> 114 @@ "s" :> 115 @@ "t" :> 116 @@
  "u" :> 117 @@ "v" :> 118 @@ "w" :> 119 @@ "x" :> 120 @@ "y" :> 121 @@
  "z" :> 122 @@ "F" :> 70 @@ "T" :> 84 @@ ":" :> 58 @@ "|" :> 124 @@
  "/" :> 47 @@ "." :> 46 @@ " " :> 32 @@ "<" :> 60 @@ ">" :> 62

HexDigit == <<"0", "1", "2", "3", "4", "5", "6", "7",
              "8", "9", "a", "b", "c", "d", "e", "f">>

IsWhiteSpace(c) == c = " "

\* String.prototype.trimEnd
RECURSIVE TrimEnd(_)
TrimEnd(s) ==
  IF s = <<>> THEN <<>>
  ELSE IF IsWhiteSpace(s[Len(s)]) THEN TrimEnd(SubSeq(s, 1, Len(s) - 1))
  ELSE s

\* String.prototype.trim
RECURSIVE TrimStart(_)
TrimStart(s) ==
  IF s = <<>> THEN <<>>
  ELSE IF IsWhiteSpace(Head(s)) THEN TrimStart(Tail(s))
  ELSE s

Trim(s) == TrimEnd(TrimStart(s))

\* String.prototype.slice(0, n)
Slice0(s, n) == SubSeq(s, 1, IF Len(s) < n THEN Len(s) ELSE n)

\* String.prototype.startsWith
StartsWith(s, p) == Len(s) >= Len(p) /\ SubSeq(s, 1, Len(p)) = p

\* String(n) for a non-negative integer
RECURSIVE ToDecimal(_)
ToDecimal(n) ==
  IF n < 10 THEN <<HexDigit[n + 1]>>
  ELSE ToDecimal(n \div 10) \o <<HexDigit[(n % 10) + 1]>>

\* Array.prototype.join
RECURSIVE Join(_, _)
Join(parts, sep) ==
  IF parts = <<>> THEN <<>>
  ELSE IF Len(parts) = 1 THEN parts[1]
  ELSE parts[1] \o sep \o Join(Tail(parts), sep)

(***************************************************************************)
(* hash32: FNV-1a on 32 bits.  A 32-bit value is the pair <<hi, lo>> of    *)
(* its 16-bit halves.  h + (h<<1) + (h<<4) + (h<<7) + (h<<8) + (h<<24),    *)
(* taken >>> 0, is h * (2^24 + 403) modulo 2^32.                           *)
(***************************************************************************)
Half == 65536

\* Bit k (of weight w = 2^k) of a ^ b
XorBit(a, b, w) == (((a \div w) + (b \div w)) % 2) * w

\* a ^ b on 16 bits
BitXor(a, b) ==
  XorBit(a, b, 1) + XorBit(a, b, 2) + XorBit(a, b, 4) + XorBit(a, b, 8)
  + XorBit(a, b, 16) + XorBit(a, b, 32) + XorBit(a, b, 64)
  + XorBit(a, b, 128) + XorBit(a, b, 256) + XorBit(a, b, 512)
  + XorBit(a, b, 1024) + XorBit(a, b, 2048) + XorBit(a, b, 4096)
  + XorBit(a, b, 8192) + XorBit(a, b, 16384) + XorBit(a, b, 32768)

FnvOffset == <<33052, 40389>>

\* One round of the loop: h ^= c, then the multiplication.
FnvStep(h, c) ==
  LET lo == BitXor(h[2], c)
      m  == lo * 403
  IN  << (h[1] * 403 + (m \div Half) + (lo % 256) * 256) % Half, m % Half >>

\* The loop of hash32 over the characters of s, first half then second half.
RECURSIVE FnvFold(_, _)
FnvFold(h, s) ==
  IF s = <<>> THEN h
  ELSE IF Len(s) = 1 THEN FnvStep(h, CharCode[s[1]])
  ELSE LET mid  == Len(s) \div 2
           left == FnvFold(h, SubSeq(s, 1, mid))
       IN  IF left[1] >= 0
           THEN FnvFold(left, SubSeq(s, mid + 1, Len(s)))
           ELSE left

Hex4(n) ==
  << HexDigit[(n \div 4096) + 1], HexDigit[((n \div 256) % 16) + 1],
     HexDigit[((n \div 16) % 16) + 1], HexDigit[(n % 16) + 1] >>

hash32(str) ==
  LET h == FnvFold(FnvOffset, str) IN Hex4(h[1]) \o Hex4(h[2])

(***************************************************************************)
(* Files, candidates and the batches a paste can deliver.                  *)
(***************************************************************************)
PdfFile == [name |-> <<"b", ".", "p", "d", "f">>,
            type |-> <<"a", "p", "p", "l", "i", "c", "a", "t", "i", "o", "n",
                       "/", "p", "d", "f">>,
            size |-> 3, lastModified |-> 0, bytes |-> "pdf-bytes"]

PngFile == [name |-> <<"a", ".", "p", "n", "g">>,
            type |-> <<"i", "m", "a", "g", "e", "/", "p", "n", "g">>,
            size |-> 5, lastModified |-> 0, bytes |-> "png-bytes"]

TxtFile == [name |-> <<"c", ".", "t", "x", "t">>,
            type |-> <<"t", "e", "x", "t", "/", "p", "l", "a", "i", "n">>,
            size |-> 7, lastModified |-> 0, bytes |-> "txt-bytes"]

\* A file with the name, type and size of PdfFile and other bytes.
PdfTwin == [PdfFile EXCEPT !.bytes = "other-pdf-bytes"]

ImagePrefix == <<"i", "m", "a", "g", "e", "/">>
OctetStream == <<"a", "p", "p", "l", "i", "c", "a", "t", "i", "o", "n", "/",
                 "o", "c", "t", "e", "t", "-", "s", "t", "r", "e", "a", "m">>

TextCandidate(p, h) == [type |-> "text", plain |-> p, html |-> h]
FileCandidate(f) == [type |-> "file", file |-> f]

\* A text of 257 characters that ends in c.
LongText(c) == [k \in 1..257 |-> IF k = 257 THEN c ELSE "x"]

\* One candidate list per paste event, as ingestFromPasteEvent builds them:
\* a text candidate is pushed only when its plain or html is non-empty.
Batches ==
  << << TextCandidate(<<"a", " ">>, <<"<", "b", ">">>) >>,
     << TextCandidate(<<" ">>, <<>>), FileCandidate(PdfFile) >>,
     << FileCandidate(PngFile) >>,
     << FileCandidate(PdfFile), FileCandidate(TxtFile) >>,
     << TextCandidate(LongText("a"), <<>>) >>,
     << TextCandidate(LongText("b"), <<>>) >>,
     << FileCandidate(PdfFile) >>,
     << FileCandidate(PdfTwin) >> >>

\* The first three are pasted in every order; the pair of files is pasted
\* on its own, and so are the look-alikes: two long texts that differ in
\* their last character, two files that differ in their bytes.
BatchIds == {1, 2, 3}
TwinBatchIds == {1, 5, 6, 7, 8}
PairBatch == 4

\* The v5 record a former version may have left under OLD_KEY.
LegacyTime == StartTime - TickMs
LegacyRecords ==
  << [id |-> "v5-1", kind |-> "text", createdAt |-> LegacyTime,
      text |-> <<"o", "\n", "\n", "\n", "\n", "\n", "\n", "\n", "\n",
                 "l", "d">>],
     [id |-> "v5-2", kind |-> "file", createdAt |-> LegacyTime,
      name |-> <<"f">>, size |-> 1] >>

(***************************************************************************)
(* Object fields: o.f || d                                                 *)
(***************************************************************************)
Has(o, f) == f \in DOMAIN o
Field(o, f, d) == IF f \in DOMAIN o THEN o[f] ELSE d
Assign(o, upd) == upd @@ o

\* o.f is a non-empty string
StrTruthy(o, f) == f \in DOMAIN o /\ o[f] # <<>>

Ids(list) == {list[k].id : k \in DOMAIN list}

(***************************************************************************)
(* The batch signature of ingestCandidates.                                *)
(***************************************************************************)
\* The part naming the kind of the candidate and nothing else.
SigPartOfKind(c) == IF c.type = "file" THEN <<"F", ":">> ELSE <<"T", ":">>

SigPart(c) ==
  IF c.type = "file"
  THEN <<"F", ":">> \o c.file.type \o <<"|">> \o ToDecimal(c.file.size)
         \o <<"|">> \o c.file.name
  ELSE <<"T", ":">> \o hash32(Slice0(c.plain, 256)) \o <<":">>
         \o hash32(Slice0(c.html, 256)) \o <<":">>
         \o ToDecimal(Len(c.plain)) \o <<":">> \o ToDecimal(Len(c.html))

\* The signature taken over the parts as a set, in no order of the batch.
SignatureUnordered(candidates) ==
  LET RECURSIVE SeqOf(_)
      SeqOf(S) == IF S = {} THEN <<>>
                  ELSE LET p == CHOOSE q \in S : TRUE
                       IN  <<p>> \o SeqOf(S \ {p})
  IN  hash32(Join(SeqOf({SigPart(candidates[k]) : k \in DOMAIN candidates}),
                  <<"|", "|">>))

Signature(candidates) ==
  hash32(Join([k \in DOMAIN candidates |-> SigPart(candidates[k])],
              <<"|", "|">>))

\* The signature of each batch, computed once.
BatchSig ==
  [b \in DOMAIN Batches |-> Signature(Batches[b])]

(***************************************************************************)
(* State.                                                                  *)
(***************************************************************************)
VARIABLES
  now,          \* Date.now()
  items,        \* state.items, newest first
  blobCache,    \* the keys of blobCache
  rendered,     \* the items as the last render() drew their cards
  meta,         \* storage.local[STORAGE_KEY]
  legacy,       \* storage.local[OLD_KEY]
  blobStore,    \* the worker's IndexedDB store: id -> record
  chan,         \* messages sent to the worker and not yet handled, in order
  reply,        \* responses on their way back to the page
  lastIngest,   \* { sig, at }
  tasks,        \* the tasks chained on ingestQueue by this page, in order
  run,          \* where the running ingest task stands
  load,         \* where load() stands
  clearPending, \* clearAll calls awaiting persistMetadata
  nextId,       \* uid(): the next fresh id
  submits,      \* pastes made so far (bounded by MaxSubmits)
  reloads,      \* page reloads so far (bounded by MaxReloads)
  clears,       \* clearAll calls so far (bounded by MaxClears)
  clearedIds,   \* history: the blobIds in state.items when this page called clearAll
  migrations,   \* history: the loads that ran the v5 migration branch
  toggles,      \* "Show more" clicks so far (bounded by MaxToggles)
  handled,      \* history: the last message given to the worker's listener on
                \* its own, and the sendResponse calls it made
  quota,        \* storage.local is over its quota: every set() fails
  copy,         \* where copyAll stands, the clipboard writes it attempted and
                \* the toast it ended with
  arg,          \* the input given to a function that is run on its own
  out,          \* the results such a function returned, in order
  open,         \* root.classList.contains('open')
  pasted,       \* history: the last paste event the listener was given and
                \* what the listener did with it
  getFailed     \* history: the blobIds whose blob.get this page's restoreBlobs
                \* saw answered without a buffer

vars == << now, items, blobCache, rendered, meta, legacy, blobStore, chan,
           reply, lastIngest, tasks, run, load, clearPending, nextId,
           submits, reloads, clears, clearedIds,
                  migrations, toggles, handled, quota, copy, arg, out,
                  open, pasted, getFailed >>

(***************************************************************************)
(* The page's heap as synchronous code sees it.  A handler's synchronous   *)
(* stretch is computed on this record and written back in one step.        *)
(* inserts logs the items the stretch passed to addItemLocal.              *)
(***************************************************************************)
Heap == [items |-> items, meta |-> meta, rendered |-> rendered,
         cache |-> blobCache, nextId |-> nextId, inserts |-> <<>>]

Store(m) ==
  /\ items' = m.items
  /\ meta' = m.meta
  /\ rendered' = m.rendered
  /\ blobCache' = m.cache
  /\ nextId' = m.nextId

HasBlobId(it) == "blobId" \in DOMAIN it
IsPending(it) == Field(it, "pending", FALSE)
HasError(it) == "error" \in DOMAIN it

\* Assign fields to the item object with this id, if state.items holds it.
Mutate(list, id, upd) ==
  [k \in DOMAIN list |->
     IF list[k].id = id THEN Assign(list[k], upd) ELSE list[k]]

IndexOf(list, id) ==
  IF id \in Ids(list) THEN CHOOSE k \in DOMAIN list : list[k].id = id ELSE 0

\* Removal that fills the hole with the last item.
RemoveAtSwap(list, k) ==
  SubSeq([list EXCEPT ![k] = list[Len(list)]], 1, Len(list) - 1)

RemoveAt(list, k) == SubSeq(list, 1, k - 1) \o SubSeq(list, k + 1, Len(list))

(***************************************************************************)
(* Persistence of the metadata, and render.                                *)
(***************************************************************************)
\* The destructuring of persistMetadata without `error`.
StripKeepsError(it) ==
  [f \in DOMAIN it \ {"expanded", "pending"} |-> it[f]]

Strip(it) ==
  [f \in DOMAIN it \ {"expanded", "pending", "error"} |-> it[f]]

Serializable(list) == [k \in DOMAIN list |-> Strip(list[k])]

\* storage.local applies the writes of one page in the order they are issued;
\* the write is taken at the call, where `serializable` is computed.  A set()
\* that fails leaves the record as it was; the catch clause shows a toast.
persistMetadata(m) ==
  IF quota THEN m ELSE [m EXCEPT !.meta = Serializable(m.items)]

render(m) == [m EXCEPT !.rendered = m.items]

\* addItemLocal with push() in place of unshift().
addItemLocalPush(m, it) ==
  persistMetadata(render(
    [m EXCEPT !.items = m.items \o <<it>>, !.inserts = Append(@, it)]))

addItemLocal(m, it) ==
  persistMetadata(render(
    [m EXCEPT !.items = <<it>> \o m.items, !.inserts = Append(@, it)]))

\* addText without its trimEnd() calls.
addTextUntrimmed(m, text, html, t) ==
  IF text = <<>> /\ html = <<>> THEN m
  ELSE addItemLocal([m EXCEPT !.nextId = @ + 1],
                    [id |-> m.nextId, kind |-> "text", createdAt |-> t,
                     text |-> text, html |-> html])

addText(m, text, html, t) ==
  LET tt == TrimEnd(text)
      hh == TrimEnd(html)
  IN  IF tt = <<>> /\ hh = <<>> THEN m
      ELSE addItemLocal([m EXCEPT !.nextId = @ + 1],
                        [id |-> m.nextId, kind |-> "text", createdAt |-> t,
                         text |-> tt, html |-> hh])

(***************************************************************************)
(* addBlob, from the end of the image step to addItemLocal.                *)
(***************************************************************************)
\* maybeCompressImage returns its input at once for these blobs.
CompressEarlyReturn(blob) ==
  \/ ~StartsWith(blob.type, ImagePrefix)
  \/ blob.size <= IMAGE_SOFT_LIMIT

RECURSIVE UpToSlash(_)
UpToSlash(s) ==
  IF s = <<>> \/ Head(s) = "/" THEN <<>> ELSE <<Head(s)>> \o UpToSlash(Tail(s))

\* mime.split('/')[1] || 'png'
SubType(mime) ==
  LET first == UpToSlash(mime)
      rest  == SubSeq(mime, Len(first) + 2, Len(mime))
      sub   == UpToSlash(rest)
  IN  IF sub = <<>> THEN <<"p", "n", "g">> ELSE sub

FileName(originalName, mime) ==
  IF originalName # <<>> THEN originalName
  ELSE IF StartsWith(mime, ImagePrefix)
       THEN <<"i", "m", "a", "g", "e", ".">> \o SubType(mime)
       ELSE <<"f", "i", "l", "e">>

MimeOf(working, blob) ==
  IF working.type # <<>> THEN working.type
  ELSE IF blob.type # <<>> THEN blob.type
  ELSE OctetStream

\* working instanceof File ? working : new File([working], fileName, ...)
FileToPersist(working, blob, t) ==
  IF "name" \in DOMAIN working THEN working
  ELSE [name |-> FileName(blob.name, MimeOf(working, blob)),
        type |-> MimeOf(working, blob), size |-> working.size,
        lastModified |-> t, bytes |-> working.bytes]

NewBlobItem(id, working, blob, t) ==
  LET mime == MimeOf(working, blob)
  IN  [id |-> id, blobId |-> id,
       kind |-> IF StartsWith(mime, ImagePrefix) THEN "image" ELSE "file",
       createdAt |-> t, name |-> FileName(blob.name, mime), mime |-> mime,
       size |-> FileToPersist(working, blob, t).size, pending |-> TRUE]

addBlobInsert(m, id, working, blob, t) ==
  addItemLocal([m EXCEPT !.cache = @ \cup {id}],
               NewBlobItem(id, working, blob, t))

\* blobToDataUrl: "data:<mime>;base64,<bytes>", never empty
DataUrl(file) == <<"d", "a", "t", "a", ":">> \o file.type

(***************************************************************************)
(* The ingest queue and ingestCandidates.                                  *)
(***************************************************************************)
NoIngest == [sig |-> <<>>, at |-> 0]
NoPaste == [seen |-> FALSE]
NoMessage == [msg |-> [js |-> "none"], fails |-> FALSE, responses |-> <<>>]
IdleRun == [pc |-> "idle"]

NewTask(b, t) ==
  [batch |-> b, submittedAt |-> t, status |-> "queued", verdict |-> "none",
   decidedAt |-> 0, inserts |-> <<>>, reported |-> 0]

\* The test without its window.
DedupHitAnyTime(sig, t, last) == sig = last.sig

\* sig === lastIngest.sig && (now - lastIngest.at) < INGEST_DEDUP_WINDOW_MS
DedupHit(sig, t, last) ==
  sig = last.sig /\ (t - last.at) < INGEST_DEDUP_WINDOW_MS

\* The candidate loop of ingestCandidates, from candidate r.idx up to its next
\* await (inside addBlob) or to its end.  Gives << heap, run >>.
\* The loop with addBlob called and not awaited: the item of a file is
\* inserted and the loop goes on to the next candidate.
RECURSIVE CandidateLoopDetached(_, _, _, _)
CandidateLoopDetached(m, r, cands, t) ==
  IF r.idx > Len(cands) THEN << m, [r EXCEPT !.pc = "end"] >>
  ELSE
    LET c == cands[r.idx]
    IN  IF c.type = "file"
        THEN CandidateLoopDetached(
               addBlobInsert([m EXCEPT !.nextId = @ + 1], m.nextId,
                             c.file, c.file, t),
               [r EXCEPT !.idx = @ + 1, !.added = @ + 1], cands, t)
        ELSE CandidateLoopDetached(
               addText(m, c.plain, c.html, t),
               [r EXCEPT !.idx = @ + 1, !.added = @ + 1], cands, t)

RECURSIVE CandidateLoop(_, _, _, _)
CandidateLoop(m, r, cands, t) ==
  IF r.idx > Len(cands) THEN << m, [r EXCEPT !.pc = "end"] >>
  ELSE
    LET c == cands[r.idx]
    IN  IF c.type = "file"
        THEN LET id == m.nextId
                 m1 == [m EXCEPT !.nextId = @ + 1]
                 r1 == [r EXCEPT !.id = id, !.file = c.file]
             IN  IF StartsWith(c.file.type, ImagePrefix)
                 THEN << m1, [r1 EXCEPT !.pc = "compress"] >>
                 ELSE << addBlobInsert(m1, id, c.file, c.file, t),
                         [r1 EXCEPT !.pc = "arraybuf",
                                    !.file = FileToPersist(c.file, c.file, t)] >>
        ELSE IF c.plain = <<>> /\ c.html = <<>>
             THEN CandidateLoop(m, [r EXCEPT !.idx = @ + 1], cands, t)
             ELSE CandidateLoop(addText(m, c.plain, c.html, t),
                                [r EXCEPT !.idx = @ + 1, !.added = @ + 1],
                                cands, t)

\* Run the task on from heap m and position r, and write the result back.
\* tk is the task's entry in the queue's log.
Resume(m, r, tk) ==
  LET res == CandidateLoop(m, r, Batches[tk.batch], now)
      m2  == res[1]
      r2  == res[2]
      end == r2.pc = "end"
  IN  /\ Store(m2)
      /\ run' = IF end THEN IdleRun ELSE r2
      /\ tasks' = [tasks EXCEPT ![r.task] =
                     [tk EXCEPT !.inserts = @ \o m2.inserts,
                                !.status = IF end THEN "done" ELSE @,
                                !.reported = IF end THEN r2.added ELSE @]]

\* addBlob has returned: added++, next candidate.
AfterAddBlob(m) ==
  Resume(m, [run EXCEPT !.idx = @ + 1, !.added = @ + 1], tasks[run.task])

\* The paste listener: enqueueIngest(() => ingestFromPasteEvent(e))
Paste(b) ==
  /\ submits < MaxSubmits
  /\ submits' = submits + 1
  /\ tasks' = Append(tasks, NewTask(b, now))
  /\ UNCHANGED << now, items, blobCache, rendered, meta, legacy, blobStore,
                  chan, reply, lastIngest, run, load, clearPending, nextId,
                  reloads, clears, clearedIds,
                  migrations, toggles, handled, quota, copy, arg, out,
                  open, pasted, getFailed >>

\* The paste listener, for a user who pastes up to MaxPastes times.
PasteMore(b) ==
  /\ submits < MaxPastes
  /\ submits' = submits + 1
  /\ tasks' = Append(tasks, NewTask(b, now))
  /\ UNCHANGED << now, items, blobCache, rendered, meta, legacy, blobStore,
                  chan, reply, lastIngest, run, load, clearPending, nextId,
                  reloads, clears, clearedIds, migrations, toggles, handled,
                  quota, copy, arg, out, open, pasted, getFailed >>

\* enqueueIngest calling fn() at once in place of ingestQueue.then(fn).
DequeueEager ==
  /\ \E k \in DOMAIN tasks :
       /\ tasks[k].status = "queued"
       /\ tasks' = [tasks EXCEPT ![k].status = "running"]
       /\ run' = [pc |-> "normalize", task |-> k, idx |-> 1, added |-> 0,
                  id |-> 0, file |-> <<>>]
  /\ UNCHANGED << now, items, blobCache, rendered, meta, legacy, blobStore,
                  chan, reply, lastIngest, load, clearPending, nextId,
                  submits, reloads, clears, clearedIds,
                  migrations, toggles, handled, quota, copy, arg, out,
                  open, pasted, getFailed >>

\* ingestQueue.then(fn): fn starts when every earlier task has settled, and
\* ingestFromPasteEvent awaits the clipboard strings.
Dequeue ==
  /\ run.pc = "idle"
  /\ \E k \in DOMAIN tasks :
       /\ tasks[k].status = "queued"
       /\ \A j \in 1..(k - 1) : tasks[j].status = "done"
       /\ tasks' = [tasks EXCEPT ![k].status = "running"]
       /\ run' = [pc |-> "normalize", task |-> k, idx |-> 1, added |-> 0,
                  id |-> 0, file |-> <<>>]
  /\ UNCHANGED << now, items, blobCache, rendered, meta, legacy, blobStore,
                  chan, reply, lastIngest, load, clearPending, nextId,
                  submits, reloads, clears, clearedIds,
                  migrations, toggles, handled, quota, copy, arg, out,
                  open, pasted, getFailed >>

\* ingestCandidates up to its first await.
ingestCandidates ==
  /\ run.pc = "normalize"
  /\ LET tk  == tasks[run.task]
         sig == BatchSig[tk.batch]
     IN  IF DedupHit(sig, now, lastIngest)
         THEN /\ tasks' = [tasks EXCEPT ![run.task] =
                             [tk EXCEPT !.status = "done",
                                        !.verdict = "duplicate",
                                        !.decidedAt = now]]
              /\ run' = IdleRun
              /\ UNCHANGED << lastIngest, items, blobCache, rendered, meta,
                              nextId >>
         ELSE /\ lastIngest' = [sig |-> sig, at |-> now]
              /\ Resume(Heap, run, [tk EXCEPT !.verdict = "accepted",
                                              !.decidedAt = now])
  /\ UNCHANGED << now, legacy, blobStore, chan, reply, load, clearPending,
                  submits, reloads, clears, clearedIds,
                  migrations, toggles, handled, quota, copy, arg, out,
                  open, pasted, getFailed >>

\* addBlob after `await maybeCompressImage(blob)`.
CompressDone ==
  /\ run.pc = "compress"
  /\ CompressEarlyReturn(run.file)
  /\ LET m == addBlobInsert(Heap, run.id, run.file, run.file, now)
     IN  /\ Store(m)
         /\ tasks' = [tasks EXCEPT ![run.task].inserts = @ \o m.inserts]
  /\ run' = [run EXCEPT !.pc = "arraybuf",
                        !.file = FileToPersist(run.file, run.file, now)]
  /\ UNCHANGED << now, legacy, blobStore, chan, reply, lastIngest, load,
                  clearPending, submits, reloads, clears, clearedIds,
                  migrations, toggles, handled, quota, copy, arg, out,
                  open, pasted, getFailed >>

PutMessage(id, fileLike) ==
  [type |-> "blob.put", live |-> TRUE, id |-> id, buffer |-> fileLike.bytes,
   mime |-> IF fileLike.type # <<>> THEN fileLike.type ELSE OctetStream,
   name |-> fileLike.name, size |-> fileLike.size,
   lastModified |-> fileLike.lastModified]

\* persistBlobToBackground after `await fileLike.arrayBuffer()`: the message
\* is sent, or runtimeSend rejects at once.
SendPut ==
  /\ run.pc = "arraybuf"
  /\ run' = [run EXCEPT !.pc = "put"]
  /\ \/ /\ chan' = Append(chan, PutMessage(run.id, run.file))
        /\ reply' = reply
     \/ /\ reply' = reply \cup {[type |-> "blob.put", id |-> run.id, ok |-> FALSE]}
        /\ chan' = chan
  /\ UNCHANGED << now, items, blobCache, rendered, meta, legacy, blobStore,
                  lastIngest, tasks, load, clearPending, nextId, submits,
                  reloads, clears, clearedIds,
                  migrations, toggles, handled, quota, copy, arg, out,
                  open, pasted, getFailed >>

\* persistBlobToBackground without its check of the answer.
PutNeverThrows(resp) == FALSE

\* persistBlobToBackground: if (!resp?.ok) throw
PutThrows(resp) == ~resp.ok

\* addBlob's try branch: the put was answered ok.
PutSucceeded ==
  /\ run.pc = "put"
  /\ \E r \in reply :
       /\ r.type = "blob.put" /\ r.id = run.id /\ ~PutThrows(r)
       /\ reply' = reply \ {r}
  /\ AfterAddBlob(persistMetadata(render(
       [Heap EXCEPT !.items = Mutate(items, run.id, [pending |-> FALSE])])))
  /\ UNCHANGED << now, legacy, blobStore, chan, lastIngest, load,
                  clearPending, submits, reloads, clears, clearedIds,
                  migrations, toggles, handled, quota, copy, arg, out,
                  open, pasted, getFailed >>

\* addBlob's catch branch, up to `await blobToDataUrl(fileToPersist)`.
PutFailed ==
  /\ run.pc = "put"
  /\ \E r \in reply :
       /\ r.type = "blob.put" /\ r.id = run.id /\ PutThrows(r)
       /\ reply' = reply \ {r}
  /\ items' = Mutate(items, run.id,
                     [pending |-> FALSE, error |-> "persist_failed"])
  /\ run' = [run EXCEPT !.pc = "encode"]
  /\ UNCHANGED << now, blobCache, rendered, meta, legacy, blobStore, chan,
                  lastIngest, tasks, load, clearPending, nextId, submits,
                  reloads, clears, clearedIds,
                  migrations, toggles, handled, quota, copy, arg, out,
                  open, pasted, getFailed >>

\* The fallback without its persistMetadata() call.
EncodeDoneUnsaved ==
  /\ run.pc = "encode"
  /\ AfterAddBlob(render(
       [Heap EXCEPT !.items =
          Mutate(items, run.id, [dataUrl |-> DataUrl(run.file)])]))
  /\ UNCHANGED << now, legacy, blobStore, chan, reply, lastIngest, load,
                  clearPending, submits, reloads, clears, clearedIds,
                  migrations, toggles, handled, quota, copy, arg, out,
                  open, pasted, getFailed >>

\* reader.onload fired.
EncodeDone ==
  /\ run.pc = "encode"
  /\ AfterAddBlob(persistMetadata(render(
       [Heap EXCEPT !.items =
          Mutate(items, run.id, [dataUrl |-> DataUrl(run.file)])])))
  /\ UNCHANGED << now, legacy, blobStore, chan, reply, lastIngest, load,
                  clearPending, submits, reloads, clears, clearedIds,
                  migrations, toggles, handled, quota, copy, arg, out,
                  open, pasted, getFailed >>

\* blobToDataUrl threw inside its executor: "Saved (session only)".
EncodeThrew ==
  /\ run.pc = "encode"
  /\ AfterAddBlob(Heap)
  /\ UNCHANGED << now, legacy, blobStore, chan, reply, lastIngest, load,
                  clearPending, submits, reloads, clears, clearedIds,
                  migrations, toggles, handled, quota, copy, arg, out,
                  open, pasted, getFailed >>

\* The FileReader failed: onload never fires and nothing resolves the promise.
EncodeNeverSettles ==
  /\ run.pc = "encode"
  /\ run' = [run EXCEPT !.pc = "hung"]
  /\ UNCHANGED << now, items, blobCache, rendered, meta, legacy, blobStore,
                  chan, reply, lastIngest, tasks, load, clearPending, nextId,
                  submits, reloads, clears, clearedIds,
                  migrations, toggles, handled, quota, copy, arg, out,
                  open, pasted, getFailed >>

(***************************************************************************)
(* load: the v6 record, the migration from v5, restoreBlobs.               *)
(***************************************************************************)
\* load() has called storageGet, which answers with the record as it stood.
LoadStarted(stored) ==
  [pc |-> "get", snap |-> stored, idx |-> 1, cur |-> 0,
   detached |-> FALSE, arr |-> <<>>]

\* The migration loop of load; ids are taken from `id` on.
RECURSIVE Migrated(_, _, _)
Migrated(old, t, id) ==
  IF old = <<>> THEN <<>>
  ELSE
    LET it   == Head(old)
        at   == IF Field(it, "createdAt", 0) # 0 THEN it.createdAt ELSE t
        kind == Field(it, "kind", "none")
    IN  IF kind = "text"
        THEN << [id |-> id, kind |-> "text", createdAt |-> at,
                 text |-> Field(it, "text", <<>>),
                 html |-> Field(it, "html", <<>>)] >>
             \o Migrated(Tail(old), t, id + 1)
        ELSE IF kind = "image"
        THEN << [id |-> id, kind |-> "image", createdAt |-> at,
                 name |-> IF StrTruthy(it, "name") THEN it.name
                          ELSE <<"i", "m", "a", "g", "e">>,
                 mime |-> Field(it, "mime", <<>>),
                 size |-> Field(it, "size", 0),
                 dataUrl |-> IF StrTruthy(it, "dataUrlPersisted")
                             THEN it.dataUrlPersisted
                             ELSE Field(it, "dataUrl", <<>>)] >>
             \o Migrated(Tail(old), t, id + 1)
        ELSE Migrated(Tail(old), t, id)

\* What load assigns to state.items for these two stored records.
LoadResult(stored, old, t, id) ==
  IF stored = <<>> /\ old # <<>> THEN Migrated(old, t, id) ELSE stored

\* restoreBlobs: the first item from position `from` on that has a blobId
\* missing from the cache, 0 if there is none.
RestoreScan(arr, from, cache) ==
  LET S == {k \in from..Len(arr) :
              HasBlobId(arr[k]) /\ arr[k].blobId \notin cache}
  IN  IF S = {} THEN 0 ELSE CHOOSE k \in S : \A j \in S : k <= j

GetMessage(id) == [type |-> "blob.get", live |-> TRUE, id |-> id]

\* restoreBlobs from its iterator position to its next await; at the end of
\* the loop load calls render().  `list` is state.items, ld is load's position.
RestoreStep(list, cache, ld) ==
  LET arr == IF ld.detached THEN ld.arr ELSE list
      k   == RestoreScan(arr, ld.idx, cache)
  IN  IF k = 0
      THEN /\ load' = [ld EXCEPT !.pc = "done", !.cur = 0, !.arr = <<>>,
                                 !.detached = FALSE, !.snap = <<>>]
           /\ rendered' = list
           /\ chan' = chan
      ELSE /\ load' = [ld EXCEPT !.pc = "restore", !.idx = k + 1,
                                 !.cur = arr[k].blobId]
           /\ chan' = Append(chan, GetMessage(arr[k].blobId))
           /\ rendered' = rendered

\* storageGet answered: state.items is assigned; migration runs when the v6
\* list is empty and the v5 record is not.
LoadRead ==
  /\ load.pc = "get"
  /\ IF load.snap = <<>> /\ legacy # <<>>
     THEN /\ items' = LoadResult(load.snap, legacy, now, nextId)
          /\ nextId' = nextId + Len(items')
          /\ meta' = IF quota THEN meta ELSE Serializable(items')
          /\ load' = [load EXCEPT !.pc = "persist"]
          /\ migrations' = migrations + 1
          /\ UNCHANGED << rendered, chan >>
     ELSE /\ items' = LoadResult(load.snap, legacy, now, nextId)
          /\ RestoreStep(items', blobCache, load)
          /\ UNCHANGED << meta, nextId, migrations >>
  /\ UNCHANGED << now, blobCache, legacy, blobStore, reply, lastIngest,
                  tasks, run, clearPending, submits, reloads, clears,
                  clearedIds, toggles, handled, quota, copy, arg, out,
                  open, pasted, getFailed >>

\* `await persistMetadata()` of the migration has returned.
LoadMigrated ==
  /\ load.pc = "persist"
  /\ RestoreStep(items, blobCache, load)
  /\ UNCHANGED << now, items, blobCache, meta, legacy, blobStore, reply,
                  lastIngest, tasks, run, clearPending, nextId, submits,
                  reloads, clears, clearedIds,
                  migrations, toggles, handled, quota, copy, arg, out,
                  open, pasted, getFailed >>

\* restoreBlobs: blob.get answered with a buffer.
GetSucceeded ==
  /\ load.pc = "restore"
  /\ \E r \in reply :
       /\ r.type = "blob.get" /\ r.id = load.cur /\ r.ok
       /\ reply' = reply \ {r}
       /\ blobCache' = blobCache \cup {load.cur}
       /\ items' = IF load.detached THEN items
                   ELSE [k \in DOMAIN items |->
                           IF HasBlobId(items[k]) /\ items[k].blobId = load.cur
                           THEN Assign(items[k],
                                  [mime |-> IF Field(items[k], "mime", <<>>) # <<>>
                                            THEN items[k].mime ELSE r.mime,
                                   size |-> IF Field(items[k], "size", 0) # 0
                                            THEN items[k].size ELSE r.size])
                           ELSE items[k]]
       /\ RestoreStep(items', blobCache', load)
  /\ UNCHANGED << now, meta, legacy, blobStore, lastIngest, tasks, run,
                  clearPending, nextId, submits, reloads, clears, clearedIds,
                  migrations, toggles, handled, quota, copy, arg, out,
                  open, pasted, getFailed >>

\* restoreBlobs with one try around its loop: the first blob.get that is
\* answered without a buffer ends the loop, and load goes on to render().
GetFailedEndsRestore ==
  /\ load.pc = "restore"
  /\ \E r \in reply :
       /\ r.type = "blob.get" /\ r.id = load.cur /\ ~r.ok
       /\ reply' = reply \ {r}
       /\ getFailed' = getFailed \cup {load.cur}
       /\ load' = [load EXCEPT !.pc = "done", !.cur = 0, !.arr = <<>>,
                               !.detached = FALSE, !.snap = <<>>]
       /\ rendered' = items
       /\ chan' = chan
  /\ UNCHANGED << now, items, blobCache, meta, legacy, blobStore, lastIngest,
                  tasks, run, clearPending, nextId, submits, reloads, clears,
                  clearedIds, migrations, toggles, handled, quota, copy, arg,
                  out, open, pasted >>

\* restoreBlobs: blob.get answered without a buffer, or rejected.
GetFailed ==
  /\ load.pc = "restore"
  /\ \E r \in reply :
       /\ r.type = "blob.get" /\ r.id = load.cur /\ ~r.ok
       /\ reply' = reply \ {r}
       /\ getFailed' = getFailed \cup {load.cur}
       /\ RestoreStep(items, blobCache, load)
  /\ UNCHANGED << now, items, blobCache, meta, legacy, blobStore, lastIngest,
                  tasks, run, clearPending, nextId, submits, reloads, clears,
                  clearedIds, migrations, toggles, handled, quota, copy, arg,
                  out, open, pasted >>

(***************************************************************************)
(* The user's delete and clear buttons, and the page reload.               *)
(***************************************************************************)
DeleteMessage(id) == [type |-> "blob.delete", live |-> TRUE, id |-> id]
ClearMessage == [type |-> "blob.clear", live |-> TRUE, id |-> 0]

\* The heap after removeItem(id), for an id that state.items holds.
removeItemHeap(m, id) ==
  LET idx == IndexOf(m.items, id)
      it  == m.items[idx]
      hit == HasBlobId(it) /\ it.blobId \in m.cache
  IN  persistMetadata(render(
        [m EXCEPT !.items = RemoveAt(m.items, idx),
                  !.cache = IF hit THEN @ \ {it.blobId} ELSE @]))

\* The blob.delete that removeItem(id) sends, if any.
removeItemSends(m, id) ==
  LET it == m.items[IndexOf(m.items, id)]
  IN  IF HasBlobId(it) /\ it.blobId \in m.cache
      THEN << DeleteMessage(it.blobId) >> ELSE << >>

\* A card's delete button: removeItem(it.id).
removeItem(id) ==
  /\ id \in Ids(rendered)
  /\ id \in Ids(items)
  /\ Store(removeItemHeap(Heap, id))
  /\ chan' = chan \o removeItemSends(Heap, id)
  /\ UNCHANGED << now, legacy, blobStore, reply, lastIngest, tasks, run,
                  load, clearPending, submits, reloads, clears, clearedIds,
                  migrations, toggles, handled, quota, copy, arg, out,
                  open, pasted, getFailed >>

\* render: (it.text || '').split('\n').length
LineCount(s) == 1 + Len(SelectSeq(s, LAMBDA c : c = "\n"))

\* render draws "Show more" under a text of more than 280 characters or
\* more than 8 lines.
HasMore(it) ==
  /\ it.kind = "text"
  /\ (Len(it.text) > 280 \/ LineCount(it.text) > 8)

\* more.onclick: it.expanded = !it.expanded, on the object the card was
\* drawn from; the list is neither drawn again nor stored.
toggleExpanded(id) ==
  /\ toggles < MaxToggles
  /\ toggles' = toggles + 1
  /\ id \in Ids(rendered) /\ HasMore(rendered[IndexOf(rendered, id)])
  /\ id \in Ids(items)
  /\ items' = Mutate(items, id,
                     [expanded |-> ~Field(items[IndexOf(items, id)],
                                          "expanded", FALSE)])
  /\ UNCHANGED << now, blobCache, rendered, meta, legacy, blobStore, chan,
                  reply, lastIngest, tasks, run, load, clearPending, nextId,
                  submits, reloads, clears, clearedIds, migrations, handled,
                  quota, copy, arg, out, open, pasted, getFailed >>

(***************************************************************************)
(* copyAll: the combined content is built, then written to the clipboard.  *)
(***************************************************************************)
NoCopy == [pc |-> "idle", count |-> 0, list |-> <<>>, writes |-> <<>>,
           toast |-> "none"]

CopyDone ==
  UNCHANGED << now, items, blobCache, rendered, meta, legacy, blobStore,
               chan, reply, lastIngest, tasks, run, load, clearPending,
               nextId, submits, reloads, clears, clearedIds, migrations,
               toggles, handled, quota, arg, out, open, pasted, getFailed >>

\* The loop of copyAll awaits blobToDataUrl for an image whose blob is cached.
EncodesImage(list, cache) ==
  \E k \in DOMAIN list :
    /\ list[k].kind = "image"
    /\ Field(list[k], "blobId", list[k].id) \in cache

\* $('btn-copy-all').onclick: an empty history is answered at once; else the
\* loop runs over a copy of state.items.
copyAll ==
  /\ copy.pc = "idle"
  /\ copy.count < MaxCopies
  /\ copy' = IF items = <<>>
             THEN [NoCopy EXCEPT !.count = copy.count + 1, !.toast = "Empty"]
             ELSE [NoCopy EXCEPT !.count = copy.count + 1, !.pc = "build",
                                 !.list = items]
  /\ CopyDone

\* Every await of the loop has settled: navigator.clipboard.write is called.
CopyBuilt ==
  /\ copy.pc = "build"
  /\ copy' = [copy EXCEPT !.pc = "rich"]
  /\ CopyDone

\* blobToDataUrl of an image never settles: copyAll stays in its loop.
CopyNeverBuilt ==
  /\ copy.pc = "build"
  /\ EncodesImage(copy.list, blobCache)
  /\ copy' = [copy EXCEPT !.pc = "hung"]
  /\ CopyDone

\* navigator.clipboard.write resolved.
RichWritten ==
  /\ copy.pc = "rich"
  /\ copy' = [copy EXCEPT !.pc = "idle", !.toast = "Copied (rich)",
                          !.writes = Append(@, [call |-> "write", ok |-> TRUE])]
  /\ CopyDone

\* The catch clause taken as the end of copyAll, without writeText.
RichRefusedForGood ==
  /\ copy.pc = "rich"
  /\ copy' = [copy EXCEPT !.pc = "idle", !.toast = "Copy blocked",
                          !.writes = Append(@, [call |-> "write", ok |-> FALSE])]
  /\ CopyDone

\* navigator.clipboard.write rejected: catch (e), writeText(text) is called.
RichRefused ==
  /\ copy.pc = "rich"
  /\ copy' = [copy EXCEPT !.pc = "text",
                          !.writes = Append(@, [call |-> "write", ok |-> FALSE])]
  /\ CopyDone

\* navigator.clipboard.writeText resolved.
TextWritten ==
  /\ copy.pc = "text"
  /\ copy' = [copy EXCEPT !.pc = "idle", !.toast = "Copied (text only)",
                          !.writes = Append(@, [call |-> "writeText",
                                                ok |-> TRUE])]
  /\ CopyDone

\* navigator.clipboard.writeText rejected: the inner catch clause.
TextRefused ==
  /\ copy.pc = "text"
  /\ copy' = [copy EXCEPT !.pc = "idle", !.toast = "Copy blocked",
                          !.writes = Append(@, [call |-> "writeText",
                                                ok |-> FALSE])]
  /\ CopyDone

BlobIdsOf(list) ==
  {list[k].blobId : k \in {j \in DOMAIN list : HasBlobId(list[j])}}

\* clearAll up to `await persistMetadata()`.  A restoreBlobs loop in progress
\* keeps iterating the array that state.items no longer names.
clearAll ==
  /\ clears < MaxClears
  /\ clears' = clears + 1
  /\ clearedIds' = clearedIds \cup BlobIdsOf(items)
  /\ Store(persistMetadata(render(
       [Heap EXCEPT !.cache = {}, !.items = <<>>])))
  /\ clearPending' = clearPending + 1
  /\ load' = IF load.pc = "restore" /\ ~load.detached
             THEN [load EXCEPT !.detached = TRUE, !.arr = items]
             ELSE load
  /\ UNCHANGED << now, legacy, blobStore, chan, reply, lastIngest, tasks,
                  run, submits, reloads, migrations, toggles, handled, quota,
                  copy, arg, out,
                  open, pasted, getFailed >>

\* clearAll after the await: runtimeSend('blob.clear', {}).
clearAllSend ==
  /\ clearPending > 0
  /\ clearPending' = clearPending - 1
  /\ chan' = Append(chan, ClearMessage)
  /\ UNCHANGED << now, items, blobCache, rendered, meta, legacy, blobStore,
                  reply, lastIngest, tasks, run, load, nextId, submits,
                  reloads, clears, clearedIds,
                  migrations, toggles, handled, quota, copy, arg, out,
                  open, pasted, getFailed >>

\* The page is reloaded: the script starts again and calls load().  What the
\* old page had sent is still handled by the worker; nobody awaits the answer.
Reload ==
  /\ reloads < MaxReloads
  /\ reloads' = reloads + 1
  /\ items' = <<>>
  /\ blobCache' = {}
  /\ rendered' = <<>>
  /\ lastIngest' = NoIngest
  /\ tasks' = <<>>
  /\ run' = IdleRun
  /\ clearPending' = 0
  /\ reply' = {}
  /\ chan' = [k \in DOMAIN chan |-> [chan[k] EXCEPT !.live = FALSE]]
  /\ load' = LoadStarted(meta)
  /\ clearedIds' = {}
  /\ copy' = [NoCopy EXCEPT !.count = copy.count]
  /\ open' = FALSE
  /\ pasted' = NoPaste
  /\ getFailed' = {}
  /\ UNCHANGED << now, meta, legacy, blobStore, nextId, submits, clears,
                  migrations, toggles, handled, quota, arg, out >>

\* storage.local.set starts to fail (QUOTA_BYTES exceeded).
QuotaHit ==
  /\ ~quota
  /\ quota' = TRUE
  /\ UNCHANGED << now, items, blobCache, rendered, meta, legacy, blobStore,
                  chan, reply, lastIngest, tasks, run, load, clearPending,
                  nextId, submits, reloads, clears, clearedIds, migrations,
                  toggles, handled, copy, arg, out, open, pasted, getFailed >>

Tick ==
  /\ now < EndTime
  /\ now' = now + TickMs
  /\ UNCHANGED << items, blobCache, rendered, meta, legacy, blobStore, chan,
                  reply, lastIngest, tasks, run, load, clearPending, nextId,
                  submits, reloads, clears, clearedIds,
                  migrations, toggles, handled, quota, copy, arg, out,
                  open, pasted, getFailed >>

(***************************************************************************)
(* The background worker: one message at a time, in the order sent.        *)
(***************************************************************************)
putBlob(store, p, t) ==
  [id \in DOMAIN store \cup {p.id} |->
     IF id = p.id
     THEN [blob |-> p.buffer, mime |-> p.mime, name |-> p.name,
           size |-> p.size, lastModified |-> p.lastModified, savedAt |-> t]
     ELSE store[id]]

\* deleteBlob with store.clear() in place of store.delete(id).
deleteBlobAll(store, id) == << >>

deleteBlob(store, id) == [k \in DOMAIN store \ {id} |-> store[k]]

Answer(msg, r) == IF msg.live THEN reply \cup {r} ELSE reply

WorkerDone ==
  UNCHANGED << now, items, blobCache, rendered, meta, legacy, lastIngest,
               tasks, run, load, clearPending, nextId, submits, reloads,
               clears, clearedIds,
                  migrations, toggles, handled, quota, copy, arg, out,
                  open, pasted, getFailed >>

\* case 'blob.put': the record is written, or the write throws.
WorkerPut ==
  /\ chan # <<>> /\ Head(chan).type = "blob.put"
  /\ chan' = Tail(chan)
  /\ \/ /\ blobStore' = putBlob(blobStore, Head(chan), now)
        /\ reply' = Answer(Head(chan),
                      [type |-> "blob.put", id |-> Head(chan).id, ok |-> TRUE])
     \/ /\ blobStore' = blobStore
        /\ reply' = Answer(Head(chan),
                      [type |-> "blob.put", id |-> Head(chan).id, ok |-> FALSE])
  /\ WorkerDone

\* case 'blob.get': the record, not_found, or a failed read.
WorkerGet ==
  /\ chan # <<>> /\ Head(chan).type = "blob.get"
  /\ chan' = Tail(chan)
  /\ blobStore' = blobStore
  /\ LET id == Head(chan).id
     IN  \/ /\ id \in DOMAIN blobStore
            /\ reply' = Answer(Head(chan),
                          [type |-> "blob.get", id |-> id, ok |-> TRUE,
                           mime |-> blobStore[id].mime,
                           size |-> blobStore[id].size])
         \/ reply' = Answer(Head(chan),
                       [type |-> "blob.get", id |-> id, ok |-> FALSE])
  /\ WorkerDone

\* case 'blob.delete'
WorkerDelete ==
  /\ chan # <<>> /\ Head(chan).type = "blob.delete"
  /\ chan' = Tail(chan)
  /\ blobStore' = deleteBlob(blobStore, Head(chan).id)
  /\ reply' = reply
  /\ WorkerDone

\* case 'blob.clear'
WorkerClear ==
  /\ chan # <<>> /\ Head(chan).type = "blob.clear"
  /\ chan' = Tail(chan)
  /\ blobStore' = << >>
  /\ reply' = reply
  /\ WorkerDone

(***************************************************************************)
(* The worker's listener on its own, for every message value.  A message   *)
(* is [js |-> "null"], [js |-> "string"], or an object [js |-> "object"]   *)
(* with the fields it has; a payload is a record of the fields it has.     *)
(***************************************************************************)
BlobIds == {1, 2}

Payload(id, f) ==
  [id |-> id, buffer |-> f.bytes, mime |-> f.type, name |-> f.name,
   size |-> f.size, lastModified |-> f.lastModified]

Request(type, payload) ==
  [js |-> "object", type |-> type, payload |-> payload]

Messages ==
  {[js |-> "null"], [js |-> "string"], [js |-> "object"],
   [js |-> "object", type |-> "blob.bogus"],
   [js |-> "object", type |-> "ping"],
   [js |-> "object", type |-> "blob.put"],
   [js |-> "object", type |-> "blob.get"],
   [js |-> "object", type |-> "blob.delete"],
   [js |-> "object", type |-> "blob.clear"],
   Request("blob.put", [buffer |-> "pdf-bytes"]),
   Request("blob.get", [name |-> <<>>]),
   Request("blob.delete", [name |-> <<>>]),
   Request("blob.clear", [name |-> <<>>])}
  \cup {Request("blob.put", Payload(id, f)) :
          id \in BlobIds, f \in {PdfFile, PngFile}}
  \cup {Request(t, [id |-> id]) :
          t \in {"blob.get", "blob.delete"}, id \in BlobIds}

\* The listener without its try/catch: a thrown error answers nothing.
Uncaught(message) == <<>>

\* catch (e): sendResponse({ ok: false, error: String(e?.message || e) })
Caught(message) == << [ok |-> FALSE, error |-> message] >>

\* The listener without its test of the message.
NeverBadRequest(msg) == FALSE

\* if (!msg || typeof msg !== 'object')
BadRequest(msg) == msg.js # "object"

\* getBlob's answer for a record.
GetAnswer(record, id) ==
  [ok |-> TRUE, id |-> id, buffer |-> record.blob,
   mime |-> IF record.mime # <<>> THEN record.mime ELSE OctetStream,
   name |-> record.name, size |-> record.size,
   lastModified |-> record.lastModified]

\* The listener for one message: the store it leaves and the sendResponse
\* calls it makes.  `fails` says that the IndexedDB request or transaction
\* of this message fails.  Destructuring an absent payload throws a
\* TypeError; a put, get or delete without a key throws a DataError.
Listener(store, msg, fails, t) ==
  LET same(responses) == [store |-> store, responses |-> responses]
      type == Field(msg, "type", "undefined")
      has  == Has(msg, "payload")
      key  == has /\ Has(msg.payload, "id")
  IN  IF BadRequest(msg)
      THEN same(<< [ok |-> FALSE, error |-> "bad_request"] >>)
      ELSE IF type = "blob.put"
      THEN IF ~has THEN same(Caught("TypeError"))
           ELSE IF fails THEN same(Caught("TransactionError"))
           ELSE IF ~key THEN same(Caught("DataError"))
           ELSE [store |-> putBlob(store, msg.payload, t),
                 responses |-> << [ok |-> TRUE] >>]
      ELSE IF type = "blob.get"
      THEN IF ~has THEN same(Caught("TypeError"))
           ELSE IF fails THEN same(Caught("TransactionError"))
           ELSE IF ~key THEN same(Caught("DataError"))
           ELSE IF msg.payload.id \notin DOMAIN store
           THEN same(<< [ok |-> FALSE, error |-> "not_found"] >>)
           ELSE same(<< GetAnswer(store[msg.payload.id], msg.payload.id) >>)
      ELSE IF type = "blob.delete"
      THEN IF ~has THEN same(Caught("TypeError"))
           ELSE IF fails THEN same(Caught("TransactionError"))
           ELSE IF ~key THEN same(Caught("DataError"))
           ELSE [store |-> deleteBlob(store, msg.payload.id),
                 responses |-> << [ok |-> TRUE] >>]
      ELSE IF type = "blob.clear"
      THEN IF fails THEN same(Caught("TransactionError"))
           ELSE [store |-> << >>, responses |-> << [ok |-> TRUE] >>]
      ELSE IF type = "ping"
      THEN same(<< [ok |-> TRUE, ts |-> t] >>)
      ELSE same(<< [ok |-> FALSE, error |-> "unknown_type"] >>)

\* chrome.runtime.onMessage: one message, from any sender.
onMessage(msg, fails) ==
  LET res == Listener(blobStore, msg, fails, now)
  IN  /\ blobStore' = res.store
      /\ handled' = [msg |-> msg, fails |-> fails,
                     responses |-> res.responses]
      /\ UNCHANGED << now, items, blobCache, rendered, meta, legacy, chan,
                      reply, lastIngest, tasks, run, load, clearPending,
                      nextId, submits, reloads, clears, clearedIds,
                      migrations, toggles, quota, copy, arg, out,
                      open, pasted, getFailed >>

(***************************************************************************)
(* The signature on its own: ingestCandidates is given a batch, then the   *)
(* same candidates in another order.                                       *)
(***************************************************************************)
\* A text of 257 characters: 256 times "x", then c.
SigCandidates ==
  { TextCandidate(<<"a", " ">>, <<"<", "b", ">">>),
    TextCandidate(<<" ">>, <<>>),
    TextCandidate(LongText("a"), <<>>),
    TextCandidate(LongText("b"), <<>>),
    FileCandidate(PdfFile),
    FileCandidate(PngFile) }

SigBatches == {<<a, b>> : a \in SigCandidates, b \in SigCandidates}

Swap(batch, i, j) == [batch EXCEPT ![i] = batch[j], ![j] = batch[i]]

Alone ==
  UNCHANGED << now, items, blobCache, rendered, meta, legacy, blobStore,
               chan, reply, lastIngest, tasks, run, load, clearPending,
               nextId, submits, reloads, clears, clearedIds, migrations,
               toggles, handled, quota, copy, open, pasted, getFailed >>

\* const sig = hash32(sigParts.join('||')) for the batch at hand.
SignBatch ==
  /\ Len(out) < MaxSigned
  /\ out' = Append(out, [batch |-> arg, sig |-> Signature(arg)])
  /\ arg' = arg
  /\ Alone

\* The next call is given the candidates with two of them exchanged.
SwapCandidates(i, j) ==
  /\ i < j
  /\ arg' = Swap(arg, i, j)
  /\ out' = out
  /\ Alone

(***************************************************************************)
(* ingestFromPasteEvent: from the items of a paste event to candidates.    *)
(* An item of kind file has the field file unless getAsFile() gives null;  *)
(* an item of kind string has its type and the data getAsString delivers.  *)
(***************************************************************************)
FileEntry(f) == [kind |-> "file", file |-> f]
NullFileEntry == [kind |-> "file"]
StringEntry(type, data) == [kind |-> "string", type |-> type, data |-> data]

PasteEntries ==
  { FileEntry(PdfFile), NullFileEntry,
    StringEntry("text/plain", <<"a">>),
    StringEntry("text/plain", <<>>),
    StringEntry("text/html", <<"<", "b", ">">>),
    StringEntry("text/uri-list", <<"u">>),
    StringEntry("text/uri-list", <<" ">>),
    StringEntry("text/rtf", <<"r">>) }

RECURSIVE SeqsUpTo(_, _)
SeqsUpTo(S, n) ==
  IF n = 0 THEN {<<>>}
  ELSE LET shorter == SeqsUpTo(S, n - 1)
       IN  shorter \cup {Append(q, x) : q \in shorter, x \in S}

PasteEvents == SeqsUpTo(PasteEntries, MaxEntries)

NoText == [plain |-> <<>>, html |-> <<>>]

\* pendingText.plain || pendingText.html
HasText(pendingText) == pendingText.plain # <<>> \/ pendingText.html # <<>>

\* if (pendingText.plain || pendingText.html) candidates.push({...})
Flush(pendingText, candidates) ==
  IF HasText(pendingText)
  THEN Append(candidates, TextCandidate(pendingText.plain, pendingText.html))
  ELSE candidates

\* The loop without the reset of pendingText after a flush.
RECURSIVE PasteLoopCarrying(_, _, _)
PasteLoopCarrying(raw, pendingText, candidates) ==
  IF raw = <<>> THEN Flush(pendingText, candidates)
  ELSE
    LET it == Head(raw)
    IN  IF it.kind = "file"
        THEN LET flushed == Flush(pendingText, candidates)
                 text    == pendingText
             IN  PasteLoopCarrying(Tail(raw), text,
                           IF Has(it, "file")
                           THEN Append(flushed, FileCandidate(it.file))
                           ELSE flushed)
        ELSE IF it.kind = "string"
        THEN IF it.type = "text/plain"
             THEN PasteLoopCarrying(Tail(raw),
                    [pendingText EXCEPT
                       !.plain = IF it.data # <<>> THEN it.data ELSE @],
                    candidates)
             ELSE IF it.type = "text/html"
             THEN PasteLoopCarrying(Tail(raw),
                    [pendingText EXCEPT
                       !.html = IF it.data # <<>> THEN it.data ELSE @],
                    candidates)
             ELSE IF it.type = "text/uri-list"
             THEN LET url == Trim(it.data)
                  IN  PasteLoopCarrying(Tail(raw),
                        IF url = <<>> THEN pendingText
                        ELSE [pendingText EXCEPT
                                !.plain = IF @ # <<>> THEN @ \o <<"\n">> \o url
                                          ELSE url],
                        candidates)
             ELSE PasteLoopCarrying(Tail(raw), pendingText, candidates)
        ELSE PasteLoopCarrying(Tail(raw), pendingText, candidates)

\* for (const it of raw) { ... } and the flush after the loop.
RECURSIVE PasteLoop(_, _, _)
PasteLoop(raw, pendingText, candidates) ==
  IF raw = <<>> THEN Flush(pendingText, candidates)
  ELSE
    LET it == Head(raw)
    IN  IF it.kind = "file"
        THEN LET flushed == Flush(pendingText, candidates)
                 text    == IF HasText(pendingText) THEN NoText
                            ELSE pendingText
             IN  PasteLoop(Tail(raw), text,
                           IF Has(it, "file")
                           THEN Append(flushed, FileCandidate(it.file))
                           ELSE flushed)
        ELSE IF it.kind = "string"
        THEN IF it.type = "text/plain"
             THEN PasteLoop(Tail(raw),
                    [pendingText EXCEPT
                       !.plain = IF it.data # <<>> THEN it.data ELSE @],
                    candidates)
             ELSE IF it.type = "text/html"
             THEN PasteLoop(Tail(raw),
                    [pendingText EXCEPT
                       !.html = IF it.data # <<>> THEN it.data ELSE @],
                    candidates)
             ELSE IF it.type = "text/uri-list"
             THEN LET url == Trim(it.data)
                  IN  PasteLoop(Tail(raw),
                        IF url = <<>> THEN pendingText
                        ELSE [pendingText EXCEPT
                                !.plain = IF @ # <<>> THEN @ \o <<"\n">> \o url
                                          ELSE url],
                        candidates)
             ELSE PasteLoop(Tail(raw), pendingText, candidates)
        ELSE PasteLoop(Tail(raw), pendingText, candidates)

\* The candidates ingestFromPasteEvent hands to ingestCandidates.
ingestFromPasteEvent(dtItems) == PasteLoop(dtItems, NoText, <<>>)

\* The normalizer is run on the items of the event at hand.
NormalizePaste ==
  /\ out = <<>>
  /\ out' = << ingestFromPasteEvent(arg) >>
  /\ arg' = arg
  /\ Alone

(***************************************************************************)
(* smartPasteFromClipboardAPI: from the ClipboardItems of clipboard.read() *)
(* to candidates.  A bundle is the list of its types, each with what       *)
(* getType(t) does: it resolves to a blob (text or bytes, size) or rejects.*)
(***************************************************************************)
TextPlain == TxtFile.type
TextHtml == <<"t", "e", "x", "t", "/", "h", "t", "m", "l">>
TextRtf == <<"t", "e", "x", "t", "/", "r", "t", "f">>
TextPrefix == <<"t", "e", "x", "t", "/">>

Fetched(type, data, size) ==
  [type |-> type, ok |-> TRUE, data |-> data, size |-> size]
Rejected(type) == [type |-> type, ok |-> FALSE]

SmartEntries ==
  { Fetched(TextPlain, <<"a">>, 1), Rejected(TextPlain),
    Fetched(TextHtml, <<"<", "b", ">">>, 3), Rejected(TextHtml),
    Fetched(TextRtf, <<"r">>, 1),
    Fetched(PngFile.type, PngFile.bytes, PngFile.size),
    Rejected(PngFile.type),
    Fetched(PdfFile.type, PdfFile.bytes, PdfFile.size) }

\* ClipboardItem.types names each type once.
Bundles ==
  {b \in SeqsUpTo(SmartEntries, MaxTypes) :
     \A i, j \in DOMAIN b : i # j => b[i].type # b[j].type}

Clipboards == SeqsUpTo(Bundles, MaxBundles)

\* types.includes(type) ? (the text of getType(type), '' if it throws) : ''
TextOf(bundle, type) ==
  LET hit == SelectSeq(bundle, LAMBDA e : e.type = type /\ e.ok)
  IN  IF hit = <<>> THEN <<>> ELSE hit[1].data

\* String.prototype.replace(/[^a-z0-9]+/gi, '')
AlphaNumeric(str) ==
  SelectSeq(str, LAMBDA c :
    /\ c \in DOMAIN CharCode
    /\ \/ CharCode[c] \in 48..57
       \/ CharCode[c] \in 65..90
       \/ CharCode[c] \in 97..122)

\* t.split('/')[1], '' when there is none
SecondPart(type) ==
  LET first == UpToSlash(type)
  IN  UpToSlash(SubSeq(type, Len(first) + 2, Len(type)))

\* new File([blob], name, { type: t })
ClipboardFile(e, name, t) ==
  [name |-> name, type |-> e.type, size |-> e.size, lastModified |-> t,
   bytes |-> e.data]

\* The candidate pushed for type e.type, if any.
TypeCandidate(e, t) ==
  IF StartsWith(e.type, ImagePrefix)
  THEN IF e.ok
       THEN << FileCandidate(ClipboardFile(e,
                 <<"c", "l", "i", "p", "b", "o", "a", "r", "d", "-",
                   "i", "m", "a", "g", "e", ".">> \o SubType(e.type), t)) >>
       ELSE <<>>
  ELSE IF e.type = TextPlain \/ e.type = TextHtml THEN <<>>
  ELSE IF ~StartsWith(e.type, TextPrefix)
  THEN IF e.ok
       THEN LET ext == AlphaNumeric(IF SecondPart(e.type) = <<>>
                                    THEN <<"b", "i", "n">>
                                    ELSE SecondPart(e.type))
            IN  << FileCandidate(ClipboardFile(e,
                     <<"c", "l", "i", "p", "b", "o", "a", "r", "d", ".">>
                       \o (IF ext = <<>> THEN <<"b", "i", "n">> ELSE ext),
                     t)) >>
       ELSE <<>>
  ELSE <<>>

\* The loop over the types with one try around it: a getType that throws
\* ends the loop.
RECURSIVE TypeLoopAborting(_, _)
TypeLoopAborting(bundle, t) ==
  IF bundle = <<>> THEN <<>>
  ELSE IF ~Head(bundle).ok THEN <<>>
  ELSE TypeCandidate(Head(bundle), t) \o TypeLoopAborting(Tail(bundle), t)

\* for (const t of types) { ... }, each getType in its own try.
RECURSIVE TypeLoop(_, _)
TypeLoop(bundle, t) ==
  IF bundle = <<>> THEN <<>>
  ELSE TypeCandidate(Head(bundle), t) \o TypeLoop(Tail(bundle), t)

\* The body of `for (const clipItem of items)`.
BundleCandidates(bundle, t) ==
  LET html  == TextOf(bundle, TextHtml)
      plain == TextOf(bundle, TextPlain)
  IN  (IF plain # <<>> \/ html # <<>>
       THEN << TextCandidate(plain, html) >> ELSE <<>>)
      \o TypeLoop(bundle, t)

\* The candidates smartPasteFromClipboardAPI hands to ingestCandidates.
RECURSIVE smartPasteFromClipboardAPI(_, _)
smartPasteFromClipboardAPI(clipItems, t) ==
  IF clipItems = <<>> THEN <<>>
  ELSE BundleCandidates(Head(clipItems), t)
       \o smartPasteFromClipboardAPI(Tail(clipItems), t)

\* Smart Paste is run on the clipboard at hand.
SmartPaste ==
  /\ out = <<>>
  /\ out' = << smartPasteFromClipboardAPI(arg, now) >>
  /\ arg' = arg
  /\ Alone

(***************************************************************************)
(* maybeCompressImage.  The browser's part is an input: whether decode()   *)
(* resolves, whether getContext gives a context, and what canvas.toBlob    *)
(* hands to its callback (null, or a blob of some size) or whether the     *)
(* call throws.  A decoded image has its natural width and height.         *)
(***************************************************************************)
IMAGE_MAX_DIM == 2048

ImageBlob(type, size, w, h) ==
  [type |-> type, size |-> size, width |-> w, height |-> h]

\* Sizes around IMAGE_SOFT_LIMIT, and sides around IMAGE_MAX_DIM, around the
\* side where the scale is 0.999 and around the side where it is 0.15.
BlobSizes == {IMAGE_SOFT_LIMIT, IMAGE_SOFT_LIMIT + 1, IMAGE_SOFT_LIMIT + 2}
Sides == {0, 3, 2048, 2050, 2051, 4096, 13656, 13657, 20000}
EncodedSizes == {0, 1, IMAGE_SOFT_LIMIT, IMAGE_SOFT_LIMIT + 1,
                 IMAGE_SOFT_LIMIT + 2}

\* What canvas.toBlob does: it throws, or calls back with null or a blob.
NoBlob == [gives |-> "null"]
EncodeThrows == [gives |-> "throws"]
Encoded(size) == [gives |-> "blob", size |-> size]

Browser(decode, ctx, encode) ==
  [decode |-> decode, ctx |-> ctx, encode |-> encode]

Transcodings ==
  { [blob |-> ImageBlob(type, size, w, h), env |-> Browser(d, c, e)] :
      type \in {PngFile.type, PdfFile.type, <<>>}, size \in BlobSizes,
      w \in Sides, h \in Sides,
      d \in {"resolves", "rejects"}, c \in BOOLEAN,
      e \in {NoBlob, EncodeThrows} \cup {Encoded(n) : n \in EncodedSizes} }

Max(a, b) == IF a >= b THEN a ELSE b

\* clamp(IMAGE_MAX_DIM / side, 0.15, 1) as a fraction; a side of 0 gives
\* Infinity, clamped to 1.
ScaleFor(side) ==
  IF side = 0 \/ IMAGE_MAX_DIM >= side THEN [num |-> 1, den |-> 1]
  ELSE IF IMAGE_MAX_DIM * 100 <= 15 * side THEN [num |-> 15, den |-> 100]
  ELSE [num |-> IMAGE_MAX_DIM, den |-> side]

\* The scale taken from the width alone.
ScaleOfWidth(w, h) == ScaleFor(w)

\* maxDim = Math.max(width, height); scale = clamp(IMAGE_MAX_DIM / maxDim, ..)
Scale(w, h) == ScaleFor(Max(w, h))

\* Math.max(1, Math.round(side * scale))
Scaled(side, q) == Max(1, (2 * side * q.num + q.den) \div (2 * q.den))

Returned(blob) == [threw |-> FALSE, blob |-> blob]
Thrown == [threw |-> TRUE]

\* if (out && out.size) return out
NonEmpty(encoded, blob) == encoded.size # 0

\* if (out && out.size && out.size < blob.size) return out
Smaller(encoded, blob) == encoded.size # 0 /\ encoded.size < blob.size

\* The try block: what it returns, or that it threw.
TryTranscode(blob, env) ==
  IF env.decode = "rejects" THEN Thrown
  ELSE LET q == Scale(blob.width, blob.height)
       IN  IF q.num * 1000 >= 999 * q.den THEN Returned(blob)
           ELSE IF ~env.ctx THEN Returned(blob)
           ELSE IF env.encode = EncodeThrows THEN Thrown
           ELSE IF env.encode = NoBlob THEN Returned(blob)
           ELSE LET encoded == [type |-> <<"i", "m", "a", "g", "e", "/",
                                          "w", "e", "b", "p">>,
                                size |-> env.encode.size,
                                width |-> Scaled(blob.width, q),
                                height |-> Scaled(blob.height, q)]
                IN  IF Smaller(encoded, blob) THEN Returned(encoded)
                    ELSE Returned(blob)

maybeCompressImage(blob, env) ==
  IF CompressEarlyReturn(blob) THEN Returned(blob)
  ELSE LET r == TryTranscode(blob, env)
       IN  IF r.threw THEN Returned(blob) ELSE r

\* maybeCompressImage is run on the blob at hand.
Compress ==
  /\ out = <<>>
  /\ out' = << maybeCompressImage(arg.blob, arg.env) >>
  /\ arg' = arg
  /\ Alone

(***************************************************************************)
(* The paste listener of the window, and the widget's open state.          *)
(***************************************************************************)
\* e.target: null, or an element with its tagName and isContentEditable.
NoTarget == [js |-> "null"]
Element(tagName, editable) ==
  [tagName |-> tagName, isContentEditable |-> editable]

Targets ==
  {NoTarget, Element("DIV", FALSE), Element("DIV", TRUE),
   Element("INPUT", FALSE), Element("TEXTAREA", FALSE)}

\* e.composedPath(): empty where the event has no such function, else the
\* nodes from the target up; host and trap are the hub's.
Paths == { <<>>, <<"page">>, <<"trap", "host", "page">>,
           <<"card", "host", "page">> }

\* e.clipboardData: null, or a DataTransfer whose items are those of a
\* batch (no items for batch 0; batch 1 is a text).
NoData == [js |-> "null"]
DataTransfer(b) == [batch |-> b]

PasteEventOf(target, path, data) ==
  [target |-> target, path |-> path, clipboardData |-> data]

WindowPasteEvents ==
  { PasteEventOf(t, p, d) :
      t \in Targets, p \in Paths,
      d \in {NoData, DataTransfer(0), DataTransfer(1)} }

Includes(path, node) == \E k \in DOMAIN path : path[k] = node

\* e.clipboardData?.items?.length
ItemsLength(e) ==
  IF e.clipboardData = NoData \/ e.clipboardData.batch = 0 THEN 0
  ELSE Len(Batches[e.clipboardData.batch])

Ignored == [defaultPrevented |-> FALSE, propagationStopped |-> FALSE,
            enqueued |-> FALSE]
Consumed == [defaultPrevented |-> TRUE, propagationStopped |-> TRUE,
             enqueued |-> TRUE]

\* The listener without its test of the target.
pasteListenerAnywhere(e, isOpen) ==
  IF ~isOpen THEN Ignored
  ELSE IF ItemsLength(e) > 0 THEN Consumed ELSE Ignored

\* window.addEventListener('paste', (e) => { ... }, true)
pasteListener(e, isOpen) ==
  IF ~isOpen THEN Ignored
  ELSE
    LET isHubTarget == Includes(e.path, "host") \/ Includes(e.path, "trap")
        t           == e.target
        isEditable  == /\ t # NoTarget
                       /\ \/ t.isContentEditable
                          \/ t.tagName \in {"INPUT", "TEXTAREA"}
    IN  IF ~isHubTarget /\ isEditable THEN Ignored
        ELSE IF ItemsLength(e) > 0 THEN Consumed
        ELSE Ignored

\* A paste event reaches the window.
PasteEvent(e) ==
  /\ submits < MaxSubmits
  /\ LET did == pasteListener(e, open)
     IN  /\ pasted' = [seen |-> TRUE, event |-> e, open |-> open, did |-> did]
         /\ tasks' = IF did.enqueued
                     THEN Append(tasks, NewTask(e.clipboardData.batch, now))
                     ELSE tasks
         /\ submits' = IF did.enqueued THEN submits + 1 ELSE submits
  /\ UNCHANGED << now, items, blobCache, rendered, meta, legacy, blobStore,
                  chan, reply, lastIngest, run, load, clearPending, nextId,
                  reloads, clears, clearedIds, migrations, toggles, handled,
                  quota, copy, arg, out, open, getFailed >>

\* toggleOpen(next): the fab opens the widget; the close button, the
\* backdrop and Escape close it.
toggleOpen(next) ==
  /\ open # next
  /\ open' = next
  /\ UNCHANGED << now, items, blobCache, rendered, meta, legacy, blobStore,
                  chan, reply, lastIngest, tasks, run, load, clearPending,
                  nextId, submits, reloads, clears, clearedIds, migrations,
                  toggles, handled, quota, copy, arg, out, pasted, getFailed >>

(***************************************************************************)
(* The migration loop of load on its own, for any v5 record.               *)
(***************************************************************************)
\* What a v5 record may hold: texts, images with their data under
\* dataUrlPersisted or dataUrl or with none, a file, and a null entry.
LegacyEntries ==
  { [id |-> "v5", kind |-> "text", createdAt |-> LegacyTime,
     text |-> <<"a">>, html |-> <<"<", "b", ">">>],
    [id |-> "v5", kind |-> "text", text |-> <<"c">>],
    [id |-> "v5", kind |-> "image", createdAt |-> LegacyTime,
     name |-> <<"p">>, mime |-> PngFile.type, size |-> 5,
     dataUrlPersisted |-> <<"d", "1">>],
    [id |-> "v5", kind |-> "image", dataUrl |-> <<"d", "2">>],
    [id |-> "v5", kind |-> "image", createdAt |-> LegacyTime,
     name |-> <<"q">>, mime |-> PngFile.type, size |-> 5],
    [id |-> "v5", kind |-> "image", dataUrl |-> <<>>],
    [id |-> "v5", kind |-> "file", createdAt |-> LegacyTime,
     name |-> <<"f">>, size |-> 1],
    [js |-> "null"] }

LegacyLists == SeqsUpTo(LegacyEntries, MaxLegacy) \ {<<>>}

\* The migration branch of load is run on the v5 record at hand.
Migrate ==
  /\ out = <<>>
  /\ out' = << Migrated(arg, now, nextId) >>
  /\ arg' = arg
  /\ Alone

(***************************************************************************)
(* The system.                                                             *)
(***************************************************************************)
Boot ==
  /\ now = StartTime
  /\ items = <<>>
  /\ blobCache = {}
  /\ rendered = <<>>
  /\ meta = <<>>
  /\ legacy \in {<<>>, LegacyRecords}
  /\ blobStore = << >>
  /\ chan = <<>>
  /\ reply = {}
  /\ lastIngest = NoIngest
  /\ tasks = <<>>
  /\ run = IdleRun
  /\ load = LoadStarted(<<>>)
  /\ clearPending = 0
  /\ nextId = 1
  /\ submits = 0
  /\ reloads = 0
  /\ clears = 0
  /\ clearedIds = {}
  /\ migrations = 0
  /\ toggles = 0
  /\ handled = NoMessage
  /\ quota = FALSE
  /\ copy = NoCopy
  /\ open = FALSE
  /\ pasted = NoPaste
  /\ getFailed = {}

Init == Boot /\ arg = <<>> /\ out = <<>>

Next ==
  \/ \E b \in BatchIds : Paste(b)
  \/ Dequeue
  \/ ingestCandidates
  \/ CompressDone
  \/ SendPut
  \/ PutSucceeded
  \/ PutFailed
  \/ EncodeDone
  \/ EncodeThrew
  \/ EncodeNeverSettles
  \/ LoadRead
  \/ LoadMigrated
  \/ GetSucceeded
  \/ GetFailed
  \/ \E id \in Ids(rendered) : removeItem(id)
  \/ clearAll
  \/ clearAllSend
  \/ Reload
  \/ WorkerPut
  \/ WorkerGet
  \/ WorkerDelete
  \/ WorkerClear

\* Every operation of the page and of the worker, at one instant of the clock.
Spec == Init /\ [][Next]_vars

\* The ingest pipeline alone, with the clock running and no v5 record.
TimedInit == Init /\ legacy = <<>>

TimedNext ==
  \/ \E b \in BatchIds : Paste(b)
  \/ Dequeue
  \/ ingestCandidates
  \/ CompressDone
  \/ SendPut
  \/ PutSucceeded
  \/ PutFailed
  \/ EncodeDone
  \/ EncodeThrew
  \/ EncodeNeverSettles
  \/ LoadRead
  \/ WorkerPut
  \/ Tick

TimedSpec == TimedInit /\ [][TimedNext]_vars

\* The ingest pipeline with removal and clearing, at one instant of the
\* clock and with no v5 record.  The steps that need no user run to
\* completion: a resolved arrayBuffer() sends the put, the worker answers
\* every message it was sent, and an answered put resumes addBlob.
LiveNext ==
  \/ \E b \in BatchIds : Paste(b)
  \/ Dequeue
  \/ ingestCandidates
  \/ CompressDone
  \/ SendPut
  \/ PutSucceeded
  \/ PutFailed
  \/ EncodeDone
  \/ EncodeThrew
  \/ EncodeNeverSettles
  \/ LoadRead
  \/ \E id \in Ids(rendered) : removeItem(id)
  \/ clearAll
  \/ clearAllSend
  \/ WorkerPut
  \/ WorkerDelete
  \/ WorkerClear

WorkerStep == WorkerPut \/ WorkerDelete \/ WorkerClear

LiveSpec ==
  /\ TimedInit
  /\ [][LiveNext]_vars
  /\ WF_vars(SendPut)
  /\ WF_vars(WorkerStep)
  /\ WF_vars(PutSucceeded \/ PutFailed)

\* The page of LiveSpec where every step that waits for no user is taken in
\* the end: the queue starts the next task, every promise that settles
\* resumes its awaiter, and the FileReader of the fallback either loads,
\* throws or fails for good.
QueueSpec ==
  /\ TimedInit
  /\ [][LiveNext]_vars
  /\ WF_vars(Dequeue)
  /\ WF_vars(ingestCandidates)
  /\ WF_vars(CompressDone)
  /\ WF_vars(SendPut)
  /\ WF_vars(WorkerStep)
  /\ WF_vars(PutSucceeded \/ PutFailed)
  /\ WF_vars(EncodeDone \/ EncodeThrew \/ EncodeNeverSettles)

\* One page from its first load on, with or without a v5 record: the ingest
\* pipeline, removal, clearing and the "Show more" button of the cards.
CardNext ==
  \/ LiveNext
  \/ LoadMigrated
  \/ \E id \in Ids(rendered) : toggleExpanded(id)

CardSpec == Init /\ [][CardNext]_vars

\* One page with no v5 record whose storage.local may run over its quota.
FaultNext == LiveNext \/ QuotaHit

FaultSpec == TimedInit /\ [][FaultNext]_vars

\* The ingest pipeline of one page with no v5 record, at one instant of the
\* clock, and the "Copy all" button.
CopyNext ==
  \/ \E b \in BatchIds : Paste(b)
  \/ Dequeue
  \/ ingestCandidates
  \/ CompressDone
  \/ SendPut
  \/ PutSucceeded
  \/ PutFailed
  \/ EncodeDone
  \/ EncodeThrew
  \/ EncodeNeverSettles
  \/ LoadRead
  \/ WorkerPut
  \/ copyAll
  \/ CopyBuilt
  \/ CopyNeverBuilt
  \/ RichWritten
  \/ RichRefused
  \/ TextWritten
  \/ TextRefused

CopySpec == TimedInit /\ [][CopyNext]_vars

\* Pastes of two files at once, at one instant of the clock, no v5 record.
PairNext ==
  \/ Paste(PairBatch)
  \/ Dequeue
  \/ ingestCandidates
  \/ SendPut
  \/ PutSucceeded
  \/ PutFailed
  \/ EncodeDone
  \/ EncodeThrew
  \/ EncodeNeverSettles
  \/ LoadRead
  \/ WorkerPut

PairSpec == TimedInit /\ [][PairNext]_vars

\* Three pastes of a text or of an image with the clock running, and no v5
\* record.
DedupBatchIds == {1, 3}

DedupNext ==
  \/ \E b \in DedupBatchIds : PasteMore(b)
  \/ Dequeue
  \/ ingestCandidates
  \/ CompressDone
  \/ SendPut
  \/ PutSucceeded
  \/ PutFailed
  \/ EncodeDone
  \/ EncodeThrew
  \/ EncodeNeverSettles
  \/ LoadRead
  \/ WorkerPut
  \/ Tick

DedupSpec == TimedInit /\ [][DedupNext]_vars

\* The signature computed for every batch of two candidates and its swap.
SigInit == Boot /\ legacy = <<>> /\ arg \in SigBatches /\ out = <<>>

SigNext ==
  \/ SignBatch
  \/ \E i \in DOMAIN arg, j \in DOMAIN arg : SwapCandidates(i, j)

SigSpec == SigInit /\ [][SigNext]_vars

\* The paste normalizer on every event of up to MaxEntries items.
PasteInit == Boot /\ legacy = <<>> /\ arg \in PasteEvents /\ out = <<>>

PasteNext == NormalizePaste

PasteSpec == PasteInit /\ [][PasteNext]_vars

\* The clipboard-read normalizer on every clipboard of up to MaxBundles
\* bundles of up to MaxTypes types.
SmartInit == Boot /\ legacy = <<>> /\ arg \in Clipboards /\ out = <<>>

SmartNext == SmartPaste

SmartSpec == SmartInit /\ [][SmartNext]_vars

\* maybeCompressImage on every blob and browser outcome of Transcodings.
ImageInit == Boot /\ legacy = <<>> /\ arg \in Transcodings /\ out = <<>>

ImageNext == Compress

ImageSpec == ImageInit /\ [][ImageNext]_vars

\* The widget opened and closed, paste events of every kind, and the ingest
\* of the text they carry.
ListenNext ==
  \/ \E next \in BOOLEAN : toggleOpen(next)
  \/ \E e \in WindowPasteEvents : PasteEvent(e)
  \/ Dequeue
  \/ ingestCandidates

ListenSpec == TimedInit /\ [][ListenNext]_vars

\* Pastes of two files at once, a reload, and the load that restores their
\* blobs from a worker whose blob.get may fail; no removal, no v5 record.
RestoreNext ==
  \/ Paste(PairBatch)
  \/ Dequeue
  \/ ingestCandidates
  \/ SendPut
  \/ PutSucceeded
  \/ PutFailed
  \/ EncodeDone
  \/ EncodeThrew
  \/ LoadRead
  \/ GetSucceeded
  \/ GetFailed
  \/ Reload
  \/ WorkerPut
  \/ WorkerGet

RestoreSpec == TimedInit /\ [][RestoreNext]_vars

\* The migration on every v5 record of up to MaxLegacy entries.
MigrateInit == Boot /\ legacy = <<>> /\ arg \in LegacyLists /\ out = <<>>

MigrateNext == Migrate

MigrateSpec == MigrateInit /\ [][MigrateNext]_vars

\* Two pastes drawn from a short text and the look-alike batches, with the
\* clock running and no v5 record.
TwinNext ==
  \/ \E b \in TwinBatchIds : Paste(b)
  \/ Dequeue
  \/ ingestCandidates
  \/ SendPut
  \/ PutSucceeded
  \/ PutFailed
  \/ EncodeDone
  \/ EncodeThrew
  \/ WorkerPut
  \/ Tick

TwinSpec == TimedInit /\ [][TwinNext]_vars

\* The worker alone, given any message in any order.
WorkerNext == \E msg \in Messages, fails \in BOOLEAN : onMessage(msg, fails)

WorkerSpec == TimedInit /\ [][WorkerNext]_vars

(***************************************************************************)
(* Properties.                                                             *)
(***************************************************************************)

\* Submissions k and k + 1 are the same batch, and nothing was submitted
\* between them.
Resubmitted(k) ==
  /\ k \in DOMAIN tasks /\ k + 1 \in DOMAIN tasks
  /\ tasks[k].batch = tasks[k + 1].batch

\* The text items a submission passed to addItemLocal, oldest first.
TextInserts(tk) == SelectSeq(tk.inserts, LAMBDA it : it.kind = "text")

\* The text candidates of a batch, in order.
TextCandidates(b) == SelectSeq(Batches[b], LAMBDA c : c.type = "text")

\* C1: when a batch is submitted twice and the second submission is made
\* less than INGEST_DEDUP_WINDOW_MS after the first, with no other batch
\* accepted in between, the second submission commits zero items, however
\* long the processing of the first one took.
C1_ResubmitWithinWindowCommitsNothing ==
  \A k \in DOMAIN tasks :
    ( /\ Resubmitted(k)
      /\ tasks[k].verdict = "accepted"
      /\ tasks[k + 1].submittedAt - tasks[k].submittedAt
           < INGEST_DEDUP_WINDOW_MS
      /\ tasks[k + 1].status = "done" )
    => tasks[k + 1].inserts = <<>>

\* C2: when the second submission of a batch is made INGEST_DEDUP_WINDOW_MS
\* or more after the first, both submissions commit their items, also when
\* the first one waited in the queue or in normalization before its
\* signature and timestamp were recorded.
C2_ResubmitAfterWindowCommitsAgain ==
  \A k \in DOMAIN tasks :
    ( /\ Resubmitted(k)
      /\ tasks[k].verdict = "accepted"
      /\ tasks[k + 1].submittedAt - tasks[k].submittedAt
           >= INGEST_DEDUP_WINDOW_MS
      /\ tasks[k + 1].status = "done" )
    => /\ tasks[k + 1].verdict = "accepted"
       /\ Len(tasks[k + 1].inserts) = Len(tasks[k].inserts)

\* C3: a text candidate creates exactly one text item when its plain or its
\* html content is non-empty once trailing whitespace is removed, and the
\* item holds the trimmed content; every other text candidate creates none.
C3_TextItemPerCandidateWithContent ==
  \A k \in DOMAIN tasks :
    (tasks[k].status = "done" /\ tasks[k].verdict = "accepted") =>
      LET got  == TextInserts(tasks[k])
          kept == SelectSeq(TextCandidates(tasks[k].batch),
                            LAMBDA c : \/ TrimEnd(c.plain) # <<>>
                                       \/ TrimEnd(c.html) # <<>>)
      IN  /\ Len(got) = Len(kept)
          /\ \A i \in DOMAIN got :
               /\ got[i].text = TrimEnd(kept[i].plain)
               /\ got[i].html = TrimEnd(kept[i].html)

\* C3 as stated: one text item for every text candidate whose plain or html
\* content is a non-empty string, strings of whitespace included.
C3_TextItemPerNonEmptyCandidate ==
  \A k \in DOMAIN tasks :
    (tasks[k].status = "done" /\ tasks[k].verdict = "accepted") =>
      Len(TextInserts(tasks[k])) =
        Len(SelectSeq(TextCandidates(tasks[k].batch),
                      LAMBDA c : c.plain # <<>> \/ c.html # <<>>))

\* One accepted submission held a candidate of whitespace only and created
\* no text item, another created a text item.
C3_WhitespaceCandidateProcessed ==
  /\ \E k \in DOMAIN tasks :
       /\ tasks[k].status = "done" /\ tasks[k].verdict = "accepted"
       /\ \E i \in DOMAIN Batches[tasks[k].batch] :
            LET c == Batches[tasks[k].batch][i]
            IN  /\ c.type = "text" /\ c.plain # <<>>
                /\ TrimEnd(c.plain) = <<>> /\ TrimEnd(c.html) = <<>>
       /\ TextInserts(tasks[k]) = <<>>
  /\ \E k \in DOMAIN tasks :
       /\ tasks[k].status = "done" /\ tasks[k].verdict = "accepted"
       /\ TextInserts(tasks[k]) # <<>>

\* C4: for every file candidate addBlob creates exactly one item, inserted at
\* index 0 with pending = true and blobId = id, and the blob.put for it is
\* sent only afterwards.
C4_FileItemInsertedPendingAtHeadBeforePut ==
  [][ /\ (run.pc # "arraybuf" /\ run'.pc = "arraybuf") =>
           LET id == run'.id
           IN  /\ id \notin Ids(items)
               /\ items' # <<>> /\ Tail(items') = items
               /\ items'[1].id = id
               /\ HasBlobId(items'[1]) /\ items'[1].blobId = id
               /\ IsPending(items'[1])
               /\ \A k \in DOMAIN chan' :
                    ~(chan'[k].type = "blob.put" /\ chan'[k].id = id)
               /\ \A r \in reply' : ~(r.type = "blob.put" /\ r.id = id)
               /\ id \notin DOMAIN blobStore'
      /\ \A k \in DOMAIN chan' :
           (k > Len(chan) /\ chan'[k].type = "blob.put") =>
             \E j \in DOMAIN tasks : \E i \in DOMAIN tasks[j].inserts :
               tasks[j].inserts[i].id = chan'[k].id
      /\ \A k \in DOMAIN tasks' :
           (tasks'[k].status = "done" /\ tasks'[k].verdict = "accepted") =>
             Len(SelectSeq(tasks'[k].inserts, LAMBDA it : HasBlobId(it))) =
               Len(SelectSeq(Batches[tasks'[k].batch],
                             LAMBDA c : c.type = "file"))
    ]_vars

\* The item of a file candidate was just inserted above an older item, and
\* its blob.put is not sent yet.
C4_FileItemInsertedAboveOlder ==
  /\ run.pc = "arraybuf"
  /\ Len(items) >= 2
  /\ items[1].id = run.id /\ IsPending(items[1])
  /\ \A k \in DOMAIN chan : ~(chan[k].type = "blob.put" /\ chan[k].id = run.id)

\* Every id uid() can hand out within the bounds.
IdRange == 1..(2 * (MaxSubmits + MaxReloads + 1))

PendingIn(id) ==
  \E k \in DOMAIN items : items[k].id = id /\ IsPending(items[k])

\* The step clears the pending flag of an item that stays in the list.
PendingCleared(id) ==
  PendingIn(id) /\ id \in Ids(items') /\ ~PendingIn(id)'

\* C5: when every blob.put is answered or rejected, a pending item reaches
\* pending = false.  At that point either the put was answered ok and the
\* item has no error, or the put failed and the item has error set; dataUrl
\* is not set at that point, and is set later only by a fallback encoder that
\* succeeds.
C5_PendingClearedByPutAnswer ==
  /\ \A id \in IdRange : PendingIn(id) ~> ~PendingIn(id)
  /\ [][ \A id \in IdRange :
           LET it == items'[IndexOf(items', id)]
           IN  /\ PendingCleared(id) =>
                    /\ ~StrTruthy(it, "dataUrl")
                    /\ \/ /\ ~HasError(it)
                          /\ [type |-> "blob.put", id |-> id, ok |-> TRUE]
                               \in reply
                       \/ /\ HasError(it)
                          /\ [type |-> "blob.put", id |-> id, ok |-> FALSE]
                               \in reply
               /\ ( /\ id \in Ids(items) /\ id \in Ids(items')
                    /\ ~StrTruthy(items[IndexOf(items, id)], "dataUrl")
                    /\ StrTruthy(it, "dataUrl") )
                    => (run.pc = "encode" /\ run.id = id /\ HasError(it))
       ]_vars

\* C5 as stated: a pending item reaches pending = false, and at that point
\* its blobId resolves in the Blob Store or it has error set and a non-empty
\* dataUrl.
C5_PendingClearedWithBlobOrDataUrl ==
  /\ \A id \in IdRange : PendingIn(id) ~> ~PendingIn(id)
  /\ [][ \A id \in IdRange :
           PendingCleared(id) =>
             LET it == items'[IndexOf(items', id)]
             IN  \/ (HasBlobId(it) /\ it.blobId \in DOMAIN blobStore')
                 \/ (HasError(it) /\ StrTruthy(it, "dataUrl"))
       ]_vars

\* A put failed and the fallback encoder never settled: the item is no
\* longer pending, has error set and no dataUrl.
C5_FallbackFailedItem ==
  /\ run.pc = "hung"
  /\ \E k \in DOMAIN items :
       /\ items[k].id = run.id
       /\ ~IsPending(items[k]) /\ HasError(items[k])
       /\ ~StrTruthy(items[k], "dataUrl")

\* The same content under another id.
SameButId(a, b) ==
  /\ DOMAIN a = DOMAIN b
  /\ \A f \in DOMAIN a \ {"id"} : a[f] = b[f]

\* What load() assigns to state.items when it reads the storage as the step
\* leaves it.
LoadedNext == LoadResult(meta', legacy', now', nextId')

\* C6: load() after persistMetadata() on a list L yields a list equal to L up
\* to the transient fields pending, error and expanded.  A step that changes
\* the stored list is a persistMetadata() on the list it leaves in memory.
C6_LoadReturnsWhatWasPersisted ==
  [][meta' # meta => Serializable(LoadedNext) = Serializable(items')]_vars

\* C7: after removeItem(id) the item is absent from the list in memory, and
\* no later load() holds it again, also when it was the only item left and
\* a non-empty v5 record is present.
C7_RemovedItemStaysRemoved ==
  [][ \A id \in Ids(rendered) :
        removeItem(id) =>
          LET x == Strip(items[IndexOf(items, id)])
          IN  /\ id \notin Ids(items')
              /\ \A k \in DOMAIN LoadedNext :
                   /\ LoadedNext[k].id # id
                   /\ SameButId(LoadedNext[k], x) =>
                        LoadedNext[k].id \in Ids(items')
    ]_vars

\* C8: removeItem of an item with a blobId issues blob.delete for it, behind
\* every blob.put of that blobId, so that the Blob Store ends without the
\* record: with the blob in the session cache or not, with the write
\* completed or pending.
C8_RemoveDeletesBlob ==
  [][ \A id \in Ids(rendered) :
        (removeItem(id) /\ HasBlobId(items[IndexOf(items, id)])) =>
          LET blobId == items[IndexOf(items, id)].blobId
          IN  /\ chan' # <<>>
              /\ chan'[Len(chan')] = DeleteMessage(blobId)
              /\ ~(run.pc = "arraybuf" /\ run.id = blobId)
    ]_vars

\* C9: after clearAll the list in memory is empty and a later load() returns
\* the empty list, also when a non-empty v5 record is present.
C9_ClearedStaysEmpty ==
  [][clearAll => (items' = <<>> /\ LoadedNext = <<>>)]_vars

\* C10: after clearAll, once every message in flight is answered, the blob.put
\* messages issued before the clear included, the Blob Store holds no record
\* under the blobId of an item that was in the list when clearAll was called.
C10_ClearedBlobsGone ==
  ( /\ clearedIds # {}
    /\ clearPending = 0
    /\ chan = <<>>
    /\ ~(run.pc = "arraybuf" /\ run.id \in clearedIds) )
  => DOMAIN blobStore \cap clearedIds = {}

\* C11: the migration branch of load runs in at most one load over the
\* lifetime of the stored data, whatever loads, ingests, removals, clears and
\* reloads happen with the same v5 record present.
C11_MigrationRunsAtMostOnce == migrations <= 1

\* C12: every item of the persisted metadata record has a blobId that
\* resolves to a record of the Blob Store, or a non-empty dataUrl, or
\* non-empty text or html.
C12_PersistedItemsHaveContent ==
  \A k \in DOMAIN meta :
    \/ HasBlobId(meta[k]) /\ meta[k].blobId \in DOMAIN blobStore
    \/ StrTruthy(meta[k], "dataUrl")
    \/ StrTruthy(meta[k], "text")
    \/ StrTruthy(meta[k], "html")

\* C13: ingest tasks run one at a time in enqueue order: a task starts only
\* when every task enqueued before it has finished all of its awaits, so at
\* most one task is between its start and its end, and lastIngest is read
\* and written only by that task.
C13_IngestTasksRunOneAtATime ==
  /\ [](\A k \in DOMAIN tasks :
          /\ tasks[k].status = "running" =>
               (run.pc # "idle" /\ run.task = k)
          /\ tasks[k].status # "queued" =>
               \A j \in 1..(k - 1) : tasks[j].status = "done")
  /\ [][ lastIngest' # lastIngest =>
           /\ run.pc = "normalize"
           /\ tasks[run.task].status = "running"
           /\ tasks'[run.task].verdict = "accepted"
           /\ \A k \in DOMAIN tasks \ {run.task} :
                tasks[k].status \in {"queued", "done"} ]_vars

\* A task waits in the queue while an earlier one awaits the answer to its
\* blob.put.
C13_TaskQueuedBehindBlobWrite ==
  /\ run.pc = "put"
  /\ \E k \in DOMAIN tasks : k > run.task /\ tasks[k].status = "queued"

\* The list without the expanded flags, which the "Show more" button changes
\* on its own.
Unexpanded(list) ==
  [k \in DOMAIN list |-> [f \in DOMAIN list[k] \ {"expanded"} |-> list[k][f]]]

\* The step inserts, removes or clears items, or it ends an addBlob whose
\* blob write was answered.
MutationEnds ==
  /\ reloads' = reloads /\ load'.pc = load.pc
  /\ \/ Len(items') # Len(items)
     \/ run.pc \in {"put", "encode"} /\ run'.pc \notin {"put", "encode", "hung"}

\* C17: every mutation of the list in memory (insert at head, removeItem,
\* clearAll, and the change of pending, error or dataUrl after a blob write
\* resolves, on the success and on every failure path) is followed by a
\* render and a persistMetadata before the operation finishes: when it
\* finishes the cards drawn and the stored list are those of the list.
C17_MutationsRenderedAndPersisted ==
  [][ MutationEnds =>
        /\ Unexpanded(rendered') = Unexpanded(items')
        /\ meta' = Serializable(items') ]_vars

\* C18: no item of the persisted metadata record carries pending, error or
\* expanded, and persistMetadata leaves the items in memory as they are.
C18_NoTransientFieldPersisted ==
  /\ \A k \in DOMAIN meta :
       DOMAIN meta[k] \cap {"pending", "error", "expanded"} = {}
  /\ persistMetadata(Heap).items = items
  /\ persistMetadata(Heap).meta = Serializable(items)

\* The list in memory holds an expanded item, an item with error and a
\* pending item, and all three are in the stored list.
C18_TransientFieldsInMemory ==
  /\ \E k \in DOMAIN items : Has(items[k], "expanded")
  /\ \E k \in DOMAIN items : HasError(items[k])
  /\ \E k \in DOMAIN items : IsPending(items[k])
  /\ Ids(items) = Ids(meta)

\* The ids of a list, in its order.
IdSeq(list) == [k \in DOMAIN list |-> list[k].id]

\* The items the running task passes to addItemLocal in this step.
NewInserts ==
  IF run.pc # "idle" /\ run.task \in DOMAIN tasks'
  THEN SubSeq(tasks'[run.task].inserts, Len(tasks[run.task].inserts) + 1,
              Len(tasks'[run.task].inserts))
  ELSE <<>>

\* C19: the list in memory is in insertion order, newest first: every
\* committed candidate goes to index 0, in batch order, and no step changes
\* the relative order of the items that stay, removal and the completion or
\* failure of a blob write included.
C19_NewestFirstOrderKept ==
  [][ /\ LET kept == Ids(items) \cap Ids(items')
         IN  SelectSeq(IdSeq(items), LAMBDA id : id \in kept) =
               SelectSeq(IdSeq(items'), LAMBDA id : id \in kept)
      /\ NewInserts # <<>> =>
           /\ Len(items') = Len(NewInserts) + Len(items)
           /\ \A i \in DOMAIN NewInserts :
                items'[Len(NewInserts) + 1 - i] = NewInserts[i]
           /\ \A k \in DOMAIN items :
                items'[Len(NewInserts) + k].id = items[k].id
    ]_vars

\* The blob write of the newest item was answered while an older item lay
\* below it.
C19_WriteAnsweredAboveOlder ==
  /\ Len(items) >= 2
  /\ Has(items[1], "pending") /\ ~items[1].pending

Asked == handled.msg
Answered == handled.responses[1]

\* A blob.put, blob.get or blob.delete whose payload is absent or has no id.
LacksPayloadOrId(msg) ==
  /\ msg.js = "object"
  /\ Field(msg, "type", "undefined") \in {"blob.put", "blob.get", "blob.delete"}
  /\ ~(Has(msg, "payload") /\ Has(msg.payload, "id"))

\* The message is not one of the listener's request types.
UnknownType(msg) ==
  /\ msg.js = "object"
  /\ Field(msg, "type", "undefined")
       \notin {"blob.put", "blob.get", "blob.delete", "blob.clear", "ping"}

\* C14: every message given to the listener gets exactly one response, for
\* every message value and every outcome of the store operation.
C14_ExactlyOneResponse ==
  Asked.js # "none" => Len(handled.responses) = 1

\* A blob.put without payload threw inside putBlob and was answered once,
\* with a failure.
C14_ThrownErrorAnswered ==
  /\ Asked = [js |-> "object", type |-> "blob.put"]
  /\ Len(handled.responses) = 1 /\ ~Answered.ok

\* C15: a message that is not an object is answered {ok:false,
\* error:'bad_request'}; a message of unknown type is answered {ok:false,
\* error:'unknown_type'}; a blob.put, blob.get or blob.delete whose payload
\* is absent or has no id is answered {ok:false, error:<the message of the
\* error thrown>}, which is not 'bad_request'; none of them changes the Blob
\* Store.
C15_BadRequestsAnsweredWithFailure ==
  [][ LET msg  == handled'.msg
          resp == handled'.responses[1]
      IN  /\ msg.js \in {"null", "string"} =>
               /\ resp = [ok |-> FALSE, error |-> "bad_request"]
               /\ blobStore' = blobStore
          /\ UnknownType(msg) =>
               /\ resp = [ok |-> FALSE, error |-> "unknown_type"]
               /\ blobStore' = blobStore
          /\ LacksPayloadOrId(msg) =>
               /\ ~resp.ok
               /\ resp.error \in {"TypeError", "DataError", "TransactionError"}
               /\ blobStore' = blobStore
    ]_vars

\* C15 as stated: every malformed request, a known blob.* type without
\* payload or id included, is answered {ok:false, error:'bad_request'} and
\* leaves the Blob Store as it is; an unknown type is answered
\* {ok:false, error:'unknown_type'}.
C15_MalformedAnsweredBadRequest ==
  [][ LET msg  == handled'.msg
          resp == handled'.responses[1]
      IN  /\ (msg.js \in {"null", "string"} \/ LacksPayloadOrId(msg)) =>
               /\ resp = [ok |-> FALSE, error |-> "bad_request"]
               /\ blobStore' = blobStore
          /\ UnknownType(msg) =>
               /\ resp = [ok |-> FALSE, error |-> "unknown_type"]
               /\ blobStore' = blobStore
    ]_vars

\* A blob.put whose payload has no id was answered with a failure while the
\* Blob Store held a record.
C15_PutWithoutIdRefused ==
  /\ Asked = Request("blob.put", [buffer |-> "pdf-bytes"])
  /\ ~handled.fails /\ ~Answered.ok
  /\ DOMAIN blobStore # {}

Quiescent ==
  /\ run.pc = "idle"
  /\ \A k \in DOMAIN tasks : tasks[k].status = "done"
  /\ load.pc = "done"
  /\ clearPending = 0
  /\ chan = <<>>

\* C21: whatever fails (a blob.put, a storage set, the fallback encoder),
\* once the page is quiescent the stored metadata record is the list in
\* memory without its transient fields.  Stated on the steps of a page whose
\* load is over and whose stored record matched before the step.
C21_QuiescentStoreMatchesMemory ==
  [][ ( /\ load.pc = "done"
        /\ meta = Serializable(items)
        /\ Quiescent' )
      => meta' = Serializable(items') ]_vars

(***************************************************************************)
(* Copy all.                                                               *)
(***************************************************************************)
RichWrite(ok) == [call |-> "write", ok |-> ok]
PlainWrite(ok) == [call |-> "writeText", ok |-> ok]

\* C22: copyAll on a non-empty history ends with one of three toasts: rich
\* when clipboard.write succeeded; text only when it failed and writeText
\* succeeded; blocked when both failed.  writeText is called only after a
\* failed write, copyAll on an empty history writes nothing, and no step of
\* copyAll changes the history, the stored record, the blob cache or the
\* Blob Store.
C22_CopyAllDegradesInOrder ==
  /\ [] /\ copy.toast = "Copied (rich)" => copy.writes = << RichWrite(TRUE) >>
        /\ copy.toast = "Copied (text only)"
             => copy.writes = << RichWrite(FALSE), PlainWrite(TRUE) >>
        /\ copy.toast = "Copy blocked"
             => copy.writes = << RichWrite(FALSE), PlainWrite(FALSE) >>
        /\ copy.toast = "Empty" => copy.writes = <<>> /\ copy.list = <<>>
        /\ (copy.pc = "idle" /\ copy.list # <<>>)
             => copy.toast \in {"Copied (rich)", "Copied (text only)",
                                "Copy blocked"}
        /\ \A i \in DOMAIN copy.writes :
             copy.writes[i] \in {PlainWrite(TRUE), PlainWrite(FALSE)}
               => i = 2 /\ copy.writes[1] = RichWrite(FALSE)
  /\ [][ copy' # copy
           => UNCHANGED << items, meta, blobStore, blobCache >> ]_vars

\* copyAll of a history with an item ended blocked.
C22_CopyBlocked ==
  /\ copy.toast = "Copy blocked"
  /\ copy.pc = "idle"
  /\ copy.list # <<>>

(***************************************************************************)
(* The batch signature and the order of the candidates.                    *)
(***************************************************************************)
\* Two candidates differ in content: plain or html for two texts, mime,
\* size or name for two files.
ContentDiffers(a, b) ==
  IF a.type = "text" /\ b.type = "text"
  THEN a.plain # b.plain \/ a.html # b.html
  ELSE IF a.type = "file" /\ b.type = "file"
  THEN \/ a.file.type # b.file.type
       \/ a.file.size # b.file.size
       \/ a.file.name # b.file.name
  ELSE TRUE

\* out[l] was signed for out[k]'s batch with candidates i and j exchanged.
SignedSwap(k, l, i, j) ==
  /\ k \in DOMAIN out /\ l \in DOMAIN out
  /\ i \in DOMAIN out[k].batch /\ j \in DOMAIN out[k].batch
  /\ out[l].batch = Swap(out[k].batch, i, j)

Positions == 1..2

\* C23, amended: exchanging two candidates whose parts of the signature
\* differ (for a text the first 256 characters of plain and html and their
\* lengths, for a file its mime, size and name) changes the signature of
\* the batch.
C23_SwapOfDistinctPartsChangesSignature ==
  \A k, l \in DOMAIN out : \A i, j \in Positions :
    ( /\ SignedSwap(k, l, i, j)
      /\ SigPart(out[k].batch[i]) # SigPart(out[k].batch[j]) )
    => out[k].sig # out[l].sig

\* C23 as stated: exchanging two candidates of different content changes
\* the signature of the batch.
C23_SwapOfDistinctContentChangesSignature ==
  \A k, l \in DOMAIN out : \A i, j \in Positions :
    ( /\ SignedSwap(k, l, i, j)
      /\ ContentDiffers(out[k].batch[i], out[k].batch[j]) )
    => out[k].sig # out[l].sig

\* A batch of a text and a file was signed in both orders.
C23_SignedInBothOrders ==
  \E k, l \in DOMAIN out :
    /\ SignedSwap(k, l, 1, 2)
    /\ out[k].batch[1].type = "text" /\ out[k].batch[2].type = "file"
    /\ out[k].sig # out[l].sig

(***************************************************************************)
(* The de-duplication window.                                              *)
(***************************************************************************)
Decided(k) == k \in DOMAIN tasks /\ tasks[k].verdict # "none"

\* The accepted submissions before submission k, and the last of them.
AcceptedBefore(k) == {j \in 1..(k - 1) : tasks[j].verdict = "accepted"}

LastAccepted(k) ==
  CHOOSE j \in AcceptedBefore(k) : \A i \in AcceptedBefore(k) : i <= j

\* Submission k has the signature of the last accepted one and was
\* processed less than the window after that one was accepted.
RepeatsLastAccepted(k) ==
  /\ AcceptedBefore(k) # {}
  /\ BatchSig[tasks[k].batch] = BatchSig[tasks[LastAccepted(k)].batch]
  /\ tasks[k].decidedAt - tasks[LastAccepted(k)].decidedAt
       < INGEST_DEDUP_WINDOW_MS

\* C24: a batch is discarded exactly when its signature is that of the
\* most recently accepted batch and it is processed less than
\* INGEST_DEDUP_WINDOW_MS after that batch was accepted; a discarded batch
\* changes neither the remembered signature nor the remembered time.
C24_DiscardedIffRepeatsLastAccepted ==
  /\ \A k \in DOMAIN tasks :
       Decided(k) =>
         (tasks[k].verdict = "duplicate" <=> RepeatsLastAccepted(k))
  /\ LET done == {k \in DOMAIN tasks : tasks[k].verdict = "accepted"}
     IN  IF done = {} THEN lastIngest = NoIngest
         ELSE LET k == LastAccepted(Len(tasks) + 1)
              IN  lastIngest = [sig |-> BatchSig[tasks[k].batch],
                                at |-> tasks[k].decidedAt]

\* A batch was accepted, discarded half a window later and accepted again a
\* full window after its first acceptance.
C24_DiscardDoesNotExtendWindow ==
  /\ Len(tasks) = 3
  /\ tasks[1].batch = tasks[2].batch /\ tasks[2].batch = tasks[3].batch
  /\ tasks[1].verdict = "accepted"
  /\ tasks[2].verdict = "duplicate"
  /\ tasks[2].decidedAt > tasks[1].decidedAt
  /\ tasks[3].verdict = "accepted"
  /\ tasks[3].decidedAt - tasks[2].decidedAt < INGEST_DEDUP_WINDOW_MS

\* Batches A, B, A were all accepted within one window.
AcceptedABA ==
  /\ Len(tasks) = 3
  /\ tasks[1].batch = tasks[3].batch /\ tasks[1].batch # tasks[2].batch
  /\ \A k \in 1..3 : tasks[k].verdict = "accepted"
  /\ tasks[3].decidedAt - tasks[1].decidedAt < INGEST_DEDUP_WINDOW_MS

(***************************************************************************)
(* The file candidates of one batch.                                       *)
(***************************************************************************)
FileCandidates(b) == SelectSeq(Batches[b], LAMBDA c : c.type = "file")

\* The file and image items a submission passed to addItemLocal.
FileInserts(tk) == SelectSeq(tk.inserts, LAMBDA it : it.kind # "text")

PendingItems == {k \in DOMAIN items : IsPending(items[k])}

\* C25, amended: the candidates of a batch are processed one after another.
\* The item of a file candidate is inserted only when no earlier item is
\* pending any more, so at most one item is pending at a time, and the
\* items of a batch are inserted in the order of its candidates.
C25_FileInsertWaitsForEarlierWrite ==
  /\ [] /\ Cardinality(PendingItems) <= 1
        /\ \A k \in DOMAIN tasks :
             LET got == FileInserts(tasks[k])
                 fcs == FileCandidates(tasks[k].batch)
             IN  /\ Len(got) <= Len(fcs)
                 /\ \A i \in DOMAIN got : got[i].name = fcs[i].file.name
  /\ [][ \A k \in DOMAIN tasks :
           (k \in DOMAIN tasks' /\ tasks'[k].inserts # tasks[k].inserts)
             => \A i \in DOMAIN items' :
                  items'[i].id \in Ids(tasks[k].inserts)
                    => ~IsPending(items'[i]) ]_vars

\* C25 as stated: the insert of a candidate does not wait for the blob write
\* of an earlier file candidate, so while a write of the batch is awaited
\* every file candidate of the batch has its item.
C25_AllInsertedWhileWriteAwaited ==
  (run.pc \in {"arraybuf", "put"})
    => Len(FileInserts(tasks[run.task]))
         = Len(FileCandidates(tasks[run.task].batch))

\* The second file of a batch is in the history and pending, above the item
\* of the first file, whose write has been answered.
C25_SecondFilePendingAfterFirst ==
  /\ Len(items) >= 2
  /\ IsPending(items[1]) /\ ~IsPending(items[2])
  /\ items[1].name = TxtFile.name /\ items[2].name = PdfFile.name
  /\ run.pc = "put"

(***************************************************************************)
(* An item whose blob write and fallback encoding both failed.             *)
(***************************************************************************)
\* The put of this item failed and the encoder threw: error is set, there
\* is no dataUrl, and addBlob is not awaiting the encoder any more.
FallbackFailed(it) ==
  /\ HasError(it)
  /\ ~Has(it, "dataUrl")
  /\ ~(run.pc \in {"encode", "hung"} /\ run.id = it.id)

\* C26: an item whose blob.put failed and whose fallback encoding failed is
\* not in the list a later load produces, that is, not in what load makes
\* of the stored records.
C26_FailedItemAbsentFromNextLoad ==
  \A i \in DOMAIN items :
    FallbackFailed(items[i])
      => items[i].id \notin Ids(LoadResult(meta, legacy, now, nextId))

(***************************************************************************)
(* The ingest queue runs every task to its end.                            *)
(***************************************************************************)
Enqueued(k) == k \in DOMAIN tasks

Completed(k) == k \in DOMAIN tasks /\ tasks[k].status = "done"

\* C27: every enqueued ingest task starts and runs to completion in the
\* end, whatever happened to the tasks before it and to its own blob write
\* and fallback encoding, as long as the worker answers every message.
C27_EveryTaskCompletes ==
  \A k \in 1..MaxSubmits : Enqueued(k) ~> Completed(k)

(***************************************************************************)
(* The paste normalizer: runs of string items between file items.          *)
(***************************************************************************)
\* The position of the first item of kind file, 0 if there is none.
FirstFile(entries) ==
  LET F == {k \in DOMAIN entries : entries[k].kind = "file"}
  IN  IF F = {} THEN 0 ELSE CHOOSE k \in F : \A j \in F : k <= j

\* The maximal runs of string items, each with the file item that ends it
\* (the last run has none).
RECURSIVE Runs(_)
Runs(entries) ==
  LET k == FirstFile(entries)
  IN  IF k = 0 THEN << [run |-> entries] >>
      ELSE << [run |-> SubSeq(entries, 1, k - 1), file |-> entries[k]] >>
           \o Runs(SubSeq(entries, k + 1, Len(entries)))

\* A run holds text: a non-empty text/plain or text/html item, or a
\* text/uri-list item that is not blank.
RunHasText(strings) ==
  \E k \in DOMAIN strings :
    \/ /\ strings[k].type \in {"text/plain", "text/html"}
       /\ strings[k].data # <<>>
    \/ /\ strings[k].type = "text/uri-list"
       /\ Trim(strings[k].data) # <<>>

\* What the runs give, run by run: the text candidate of the run alone if
\* the run holds text, then the file of the item that ends the run.
RECURSIVE RunByRun(_)
RunByRun(runs) ==
  IF runs = <<>> THEN <<>>
  ELSE LET r == Head(runs)
       IN  (IF RunHasText(r.run) THEN ingestFromPasteEvent(r.run) ELSE <<>>)
           \o (IF Has(r, "file") /\ Has(r.file, "file")
               THEN << FileCandidate(r.file.file) >> ELSE <<>>)
           \o RunByRun(Tail(runs))

\* C28: the paste normalizer emits the files in input order and, for each
\* maximal run of string items, one text candidate at the place of the run
\* exactly when the run holds text, made of the items of that run only.
C28_OneTextCandidatePerRunInPlace ==
  out # <<>> =>
    /\ out[1] = RunByRun(Runs(arg))
    /\ \A k \in DOMAIN Runs(arg) :
         LET alone == ingestFromPasteEvent(Runs(arg)[k].run)
         IN  /\ Len(alone) = IF RunHasText(Runs(arg)[k].run) THEN 1 ELSE 0
             /\ \A i \in DOMAIN alone : alone[i].type = "text"

\* An event with text before and after a file was normalized into a text
\* candidate, the file and another text candidate.
C28_TextFileText ==
  /\ out # <<>>
  /\ Len(out[1]) = 3
  /\ out[1][1].type = "text" /\ out[1][1].html = <<>>
  /\ out[1][2].type = "file"
  /\ out[1][3].type = "text" /\ out[1][3].plain = <<>>

(***************************************************************************)
(* The text candidate of one run of string items.                          *)
(***************************************************************************)
OfType(strings, type) ==
  SelectSeq(strings, LAMBDA e : e.kind = "string" /\ e.type = type)

\* A run as a paste delivers it: string items only, at most one text/plain
\* and at most one text/html item.
IsRun(entries) ==
  /\ \A k \in DOMAIN entries : entries[k].kind = "string"
  /\ Len(OfType(entries, "text/plain")) <= 1
  /\ Len(OfType(entries, "text/html")) <= 1

\* The data of the text/html item.
HtmlOf(strings) ==
  LET h == OfType(strings, "text/html")
  IN  IF h = <<>> THEN <<>> ELSE h[1].data

\* The data of the text/plain item, then each text/uri-list item that is
\* not blank, one per line.
PlainWithUris(strings) ==
  LET p    == SelectSeq(OfType(strings, "text/plain"),
                        LAMBDA e : e.data # <<>>)
      u    == SelectSeq(OfType(strings, "text/uri-list"),
                        LAMBDA e : Trim(e.data) # <<>>)
      body == [k \in DOMAIN p |-> p[k].data]
      urls == [k \in DOMAIN u |-> Trim(u[k].data)]
  IN  Join(body \o urls, <<"\n">>)

\* C29: the text candidate of a run has the html of the text/html item and
\* the plain of the text/plain item followed by every non-blank
\* text/uri-list item on a line of its own, in whatever order the items of
\* the run come.
C29_RunCoalescedInAnyOrder ==
  (out # <<>> /\ IsRun(arg) /\ RunHasText(arg))
    => out[1] = << TextCandidate(PlainWithUris(arg), HtmlOf(arg)) >>

\* The same for the runs whose text/plain item comes before their
\* text/uri-list items.
PlainFirst(strings) ==
  \A i, j \in DOMAIN strings :
    (strings[i].type = "text/uri-list" /\ strings[j].type = "text/plain")
      => j < i

RunCoalescedPlainFirst ==
  (out # <<>> /\ IsRun(arg) /\ RunHasText(arg) /\ PlainFirst(arg))
    => out[1] = << TextCandidate(PlainWithUris(arg), HtmlOf(arg)) >>

(***************************************************************************)
(* The clipboard-read normalizer, bundle by bundle.                        *)
(***************************************************************************)
\* The top-level category of a type.
Category(type) == UpToSlash(type)

\* The types of a bundle that are not text and were fetched, in order.
FetchedFiles(bundle) ==
  SelectSeq(bundle, LAMBDA e : Category(e.type) # <<"t", "e", "x", "t">> /\ e.ok)

\* The text of a type of the bundle, empty if absent or if its fetch failed.
Content(bundle, type) ==
  IF \E k \in DOMAIN bundle : bundle[k].type = type /\ bundle[k].ok
  THEN bundle[CHOOSE k \in DOMAIN bundle : bundle[k].type = type].data
  ELSE <<>>

\* What a candidate carries: its text, or the type and bytes of its file.
Carried(c) ==
  IF c.type = "text" THEN c
  ELSE [type |-> "file", mime |-> c.file.type, bytes |-> c.file.bytes]

\* What the claim lists for the bundles, in order.
RECURSIVE Listed(_)
Listed(clipItems) ==
  IF clipItems = <<>> THEN <<>>
  ELSE LET b     == Head(clipItems)
           plain == Content(b, TextPlain)
           html  == Content(b, TextHtml)
           files == FetchedFiles(b)
       IN  (IF plain # <<>> \/ html # <<>>
            THEN << TextCandidate(plain, html) >> ELSE <<>>)
           \o [k \in DOMAIN files |->
                 [type |-> "file", mime |-> files[k].type,
                  bytes |-> files[k].data]]
           \o Listed(Tail(clipItems))

\* C30: bundle by bundle, the clipboard-read normalizer emits one merged
\* text candidate if the text/plain or text/html content is non-empty, then
\* one file candidate for each type that is not text and whose fetch
\* succeeded, in the order of the types; a failed fetch drops that type only.
C30_SmartPasteListsEachBundle ==
  out # <<>> =>
    [k \in DOMAIN out[1] |-> Carried(out[1][k])] = Listed(arg)

\* A bundle with a failed image fetch before a fetched file, and a second
\* bundle with text: the file and the text were emitted.
C30_FailedFetchDropsOneType ==
  /\ out # <<>>
  /\ Len(arg) = 2
  /\ Len(arg[1]) = 2
  /\ arg[1][1] = Rejected(PngFile.type)
  /\ arg[1][2] = Fetched(PdfFile.type, PdfFile.bytes, PdfFile.size)
  /\ Len(out[1]) = 2
  /\ out[1][1].type = "file"
  /\ out[1][1].file.name
       = <<"c", "l", "i", "p", "b", "o", "a", "r", "d", ".", "p", "d", "f">>
  /\ out[1][2].type = "text"

(***************************************************************************)
(* What ingest reports against what it added.                              *)
(***************************************************************************)
\* C31: the number of committed candidates that ingest reports for an
\* accepted batch (the N of 'Added N item(s)', 0 for 'Nothing to add')
\* equals the number of items the batch added to the history.
C31_ReportedCountIsItemsAdded ==
  \A k \in DOMAIN tasks :
    (tasks[k].status = "done" /\ tasks[k].verdict = "accepted")
      => tasks[k].reported = Len(tasks[k].inserts)

(***************************************************************************)
(* maybeCompressImage: what it returns.                                    *)
(***************************************************************************)
\* The longer side of an image.
LongerSide(blob) ==
  IF blob.width >= blob.height THEN blob.width ELSE blob.height

\* 2048 / side >= 0.999
ScaleIsOne(side) == side = 0 \/ 1000 * IMAGE_MAX_DIM >= 999 * side

\* The cases in which the claim has the input returned.
InputKept(blob, env) ==
  \/ ~StartsWith(blob.type, ImagePrefix)
  \/ blob.size <= IMAGE_SOFT_LIMIT
  \/ ScaleIsOne(LongerSide(blob))
  \/ env.decode = "rejects"
  \/ env.encode.gives \in {"null", "throws"}
  \/ (env.encode.gives = "blob" /\ env.encode.size >= blob.size)

\* C32: maybeCompressImage returns its input unchanged or a re-encoded blob
\* strictly smaller in bytes than the input; it returns the input whenever
\* the input is not image-typed, is at or below the soft limit, the scale is
\* at least 0.999, the re-encoded output is missing or not strictly smaller,
\* or a decode or encode step throws; it never throws to its caller.
C32_ReturnsInputOrSmallerBlob ==
  out # <<>> =>
    /\ ~out[1].threw
    /\ Has(out[1], "blob")
    /\ \/ out[1].blob = arg.blob
       \/ out[1].blob.size < arg.blob.size
    /\ InputKept(arg.blob, arg.env) => out[1].blob = arg.blob

\* A re-encoded blob one byte smaller than the image was returned.
C32_SmallerBlobReturned ==
  /\ out # <<>>
  /\ out[1].blob # arg.blob
  /\ out[1].blob.size + 1 = arg.blob.size

\* The encoder threw on an oversized image and the input came back.
C32_EncoderThrewInputReturned ==
  /\ out # <<>>
  /\ ~CompressEarlyReturn(arg.blob)
  /\ ~ScaleIsOne(LongerSide(arg.blob))
  /\ arg.env.decode = "resolves" /\ arg.env.ctx
  /\ arg.env.encode.gives = "throws"
  /\ out[1] = Returned(arg.blob)

(***************************************************************************)
(* maybeCompressImage: the dimensions of what it returns.                  *)
(***************************************************************************)
WithinMaxDim(blob) ==
  blob.width <= IMAGE_MAX_DIM /\ blob.height <= IMAGE_MAX_DIM

\* Math.round(0.15 * side) <= 2048
ClampFits(side) == 15 * side < 100 * IMAGE_MAX_DIM + 50

\* C33 (as stated): for every image above the soft limit whose longer side
\* exceeds 2048 px, the image the transcoder returns has width and height
\* at most 2048 px, whatever the input dimensions.
C33_LargeImageReturnedWithinMaxDim ==
  ( /\ out # <<>>
    /\ StartsWith(arg.blob.type, ImagePrefix)
    /\ arg.blob.size > IMAGE_SOFT_LIMIT
    /\ LongerSide(arg.blob) > IMAGE_MAX_DIM )
    => WithinMaxDim(out[1].blob)

\* C33 (amended): a re-encoded image that the transcoder returns has width
\* and height at most 2048 px exactly when 0.15 times the input's longer
\* side rounds to at most 2048 (a longer side of at most 13656 px); beyond
\* that its longer side is that rounded product.  The input is returned as
\* it is, whatever its dimensions, when the scale is at least 0.999.
C33_ReencodedWithinMaxDimUpToClamp ==
  out # <<>> =>
    /\ out[1].blob # arg.blob =>
         /\ WithinMaxDim(out[1].blob) <=> ClampFits(LongerSide(arg.blob))
         /\ ~ClampFits(LongerSide(arg.blob)) =>
              LongerSide(out[1].blob)
                = (2 * 15 * LongerSide(arg.blob) + 100) \div 200
    /\ ScaleIsOne(LongerSide(arg.blob)) => out[1].blob = arg.blob

\* An image of 20000 px was re-encoded with a longer side of 3000 px.
C33_ClampedImageAboveMaxDim ==
  /\ out # <<>>
  /\ LongerSide(arg.blob) = 20000
  /\ out[1].blob # arg.blob
  /\ LongerSide(out[1].blob) = 3000

(***************************************************************************)
(* Which paste events are taken.                                           *)
(***************************************************************************)
TargetsHub(e) == Includes(e.path, "host") \/ Includes(e.path, "trap")

\* The target is an input, a textarea or a contenteditable element.
Editable(e) ==
  /\ e.target # NoTarget
  /\ \/ e.target.isContentEditable
     \/ e.target.tagName = "INPUT"
     \/ e.target.tagName = "TEXTAREA"

CarriesItems(e) ==
  /\ e.clipboardData # NoData
  /\ e.clipboardData.batch # 0

InsertedIds ==
  UNION { Ids(tasks[k].inserts) : k \in DOMAIN tasks }

\* C34: a paste event is enqueued for ingest if and only if the widget is
\* open, the event carries at least one clipboard item, and it targets the
\* hub or a non-editable page element; default handling and propagation are
\* suppressed exactly when it is enqueued; a paste while the widget is
\* closed or into a page input, textarea or contenteditable element adds no
\* task and never changes the history.
C34_PasteTakenIffOpenAndNotPageInput ==
  /\ [](pasted.seen =>
          /\ pasted.did.enqueued <=>
               /\ pasted.open
               /\ CarriesItems(pasted.event)
               /\ TargetsHub(pasted.event) \/ ~Editable(pasted.event)
          /\ pasted.did.defaultPrevented <=> pasted.did.enqueued
          /\ pasted.did.propagationStopped <=> pasted.did.enqueued)
  /\ [](Ids(items) \subseteq InsertedIds)
  /\ [][ /\ Len(tasks') > Len(tasks) =>
              /\ pasted'.seen /\ pasted'.did.enqueued /\ pasted'.open
              /\ TargetsHub(pasted'.event) \/ ~Editable(pasted'.event)
         /\ (pasted' # pasted /\ ~pasted'.did.enqueued) =>
              /\ tasks' = tasks
              /\ items' = items
              /\ meta' = meta ]_vars

\* A paste into the hub's own textarea was taken and its text is in the
\* history, after a paste into a page input was left alone.
C34_HubPasteTakenPageInputLeft ==
  /\ pasted.seen
  /\ ~pasted.did.enqueued
  /\ pasted.open
  /\ CarriesItems(pasted.event)
  /\ ~TargetsHub(pasted.event) /\ Editable(pasted.event)
  /\ Len(tasks) = 1
  /\ Len(items) = 1

(***************************************************************************)
(* restoreBlobs and a blob that cannot be fetched.                         *)
(***************************************************************************)
\* A blob.get answered without a buffer is taken by restoreBlobs; a reload
\* of the page drops the answer with the page instead.
FailedGetTaken ==
  /\ load.pc = "restore"
  /\ reloads' = reloads
  /\ \E r \in reply \ reply' : r.type = "blob.get" /\ ~r.ok

\* C35: during load an item whose blob cannot be fetched (blob.get answers
\* not_found, fails or rejects) stays in the item list in its position
\* without a cached blob, and the blobs of the other items of the list are
\* still restored: when load is done every item with a blobId has its blob
\* cached unless its own blob.get failed.
C35_MissingBlobKeepsItemAndOthersRestored ==
  /\ [][FailedGetTaken =>
          /\ items' = items
          /\ blobCache' = blobCache
          /\ load.cur \notin blobCache']_vars
  /\ [](load.pc = "done" =>
          \A k \in DOMAIN items :
            HasBlobId(items[k]) =>
              \/ items[k].blobId \in blobCache
              \/ items[k].blobId \in getFailed)

\* Load is done after a reload: the blob of the first of two stored items
\* could not be fetched, the item is in the list without a cached blob, and
\* the blob of the second is cached.
C35_SecondRestoredAfterFirstFailed ==
  /\ reloads = 1
  /\ load.pc = "done"
  /\ Len(items) = 2
  /\ HasBlobId(items[1]) /\ HasBlobId(items[2])
  /\ items[1].blobId \in getFailed /\ items[1].blobId \notin blobCache
  /\ items[2].blobId \in blobCache /\ items[2].blobId \notin getFailed

(***************************************************************************)
(* What the migration makes of a v5 record.                                *)
(***************************************************************************)
\* The inline data of a legacy image, empty if it has none.
InlineData(it) ==
  IF StrTruthy(it, "dataUrlPersisted") THEN it.dataUrlPersisted
  ELSE IF StrTruthy(it, "dataUrl") THEN it.dataUrl
  ELSE <<>>

\* The legacy entries for which the claim has an item made.
Migratable(old) ==
  SelectSeq(old, LAMBDA it :
    /\ Has(it, "kind")
    /\ \/ it.kind = "text"
       \/ it.kind = "image" /\ InlineData(it) # <<>>)

\* C36: the migrated list holds, in legacy order, exactly one text item per
\* legacy text item with the same text and html, and one image item per
\* legacy image item with non-empty inline data, carrying that data as
\* dataUrl and no blobId; legacy file items and legacy image items without
\* inline data produce no item.
C36_MigratedListIsTextsAndImagesWithData ==
  out # <<>> =>
    LET from == Migratable(arg)
        made == out[1]
    IN  /\ Len(made) = Len(from)
        /\ \A k \in DOMAIN made :
             k \in DOMAIN from =>
               /\ made[k].kind = from[k].kind
               /\ ~HasBlobId(made[k])
               /\ made[k].kind = "text" =>
                    /\ made[k].text = Field(from[k], "text", <<>>)
                    /\ made[k].html = Field(from[k], "html", <<>>)
               /\ made[k].kind = "image" =>
                    made[k].dataUrl = InlineData(from[k])

\* The same, with an item for every legacy image item, with or without data.
MigratedTextsAndAllImages ==
  out # <<>> =>
    LET from == SelectSeq(arg, LAMBDA it :
                  Has(it, "kind") /\ it.kind \in {"text", "image"})
        made == out[1]
    IN  /\ Len(made) = Len(from)
        /\ \A k \in DOMAIN made :
             k \in DOMAIN from =>
               /\ made[k].kind = from[k].kind
               /\ ~HasBlobId(made[k])
               /\ made[k].kind = "text" =>
                    /\ made[k].text = Field(from[k], "text", <<>>)
                    /\ made[k].html = Field(from[k], "html", <<>>)
               /\ made[k].kind = "image" =>
                    made[k].dataUrl = InlineData(from[k])

(***************************************************************************)
(* The session blob cache against the history.                             *)
(***************************************************************************)
\* C37: in every state between synchronous operations, every key of the
\* session blob cache is the blobId of an item of the in-memory history:
\* removeItem and clearAll release the handle of every item they remove, and
\* no asynchronous completion leaves or re-creates a cache entry for an
\* item that is no longer in the history.
C37_CacheKeysAreHistoryBlobIds ==
  blobCache \subseteq BlobIdsOf(items)

(***************************************************************************)
(* What a discarded batch has in common with the accepted one.             *)
(***************************************************************************)
\* Two candidates agree in what the signature reads of them.
SameToSignature(a, b) ==
  /\ a.type = b.type
  /\ a.type = "file" =>
       /\ a.file.type = b.file.type
       /\ a.file.size = b.file.size
       /\ a.file.name = b.file.name
  /\ a.type = "text" =>
       /\ Slice0(a.plain, 256) = Slice0(b.plain, 256)
       /\ Slice0(a.html, 256) = Slice0(b.html, 256)
       /\ Len(a.plain) = Len(b.plain)
       /\ Len(a.html) = Len(b.html)

Discarded(k) == k \in DOMAIN tasks /\ tasks[k].verdict = "duplicate"

\* C38 (as stated): a batch is discarded as a duplicate only if its
\* candidates are identical in order and content to those of the most
\* recently accepted batch.
C38_DiscardedBatchIsIdentical ==
  \A k \in DOMAIN tasks :
    Discarded(k) =>
      /\ AcceptedBefore(k) # {}
      /\ Batches[tasks[k].batch] = Batches[tasks[LastAccepted(k)].batch]

\* C38 (amended): a batch is discarded as a duplicate only if it has as many
\* candidates as the most recently accepted batch and each agrees with its
\* counterpart in what the signature reads: the kind, for a text the first
\* 256 characters and the lengths of plain and html, for a file the mime,
\* size and name.
C38_DiscardedBatchAgreesInSignedParts ==
  \A k \in DOMAIN tasks :
    Discarded(k) =>
      /\ AcceptedBefore(k) # {}
      /\ LET mine == Batches[tasks[k].batch]
             last == Batches[tasks[LastAccepted(k)].batch]
         IN  /\ Len(mine) = Len(last)
             /\ \A i \in DOMAIN mine :
                  i \in DOMAIN last => SameToSignature(mine[i], last[i])

\* A file was discarded as the duplicate of a file with other bytes.
C38_FileWithOtherBytesDiscarded ==
  /\ Len(tasks) = 2
  /\ tasks[1].verdict = "accepted" /\ Discarded(2)
  /\ Batches[tasks[1].batch][1].type = "file"
  /\ Batches[tasks[2].batch][1].type = "file"
  /\ Batches[tasks[1].batch][1].file.bytes
       # Batches[tasks[2].batch][1].file.bytes

\* A long text was discarded as the duplicate of a text with another ending.
TextWithOtherEndingDiscarded ==
  /\ Len(tasks) = 2
  /\ tasks[1].verdict = "accepted" /\ Discarded(2)
  /\ Batches[tasks[1].batch][1].type = "text"
  /\ Batches[tasks[2].batch][1].type = "text"
  /\ Batches[tasks[1].batch][1].plain # Batches[tasks[2].batch][1].plain

(***************************************************************************)
(* Ingest while load is still in progress.                                 *)
(***************************************************************************)
\* Every item this page ingested is in the history once load is done.
IngestedKeptByLoad == load.pc = "done" => InsertedIds \subseteq Ids(items)

\* No step takes an item out of the stored record while load is in progress.
StoredKeptDuringLoad == load.pc # "done" => Ids(meta) \subseteq Ids(meta')

\* C39: an ingest that happens while the initial load is still in progress
\* is neither lost nor undone: after load finishes the in-memory history
\* holds every item ingested during load together with the previously
\* persisted items, and the persisted record has not had the previously
\* persisted items overwritten away.  (No removal or clear is made here.)
C39_IngestDuringLoadKept ==
  /\ [][StoredKeptDuringLoad]_vars
  /\ []IngestedKeptByLoad
  /\ [](load.pc = "done" => Ids(meta) \subseteq Ids(items))

(***************************************************************************)
(* clearAll against a concurrent ingest.                                   *)
(***************************************************************************)
\* No message is in flight, no answer is waiting, no clearAll awaits its
\* metadata write, and no ingest task is between two of its steps.
AllAnswered ==
  /\ chan = <<>>
  /\ reply = {}
  /\ clearPending = 0
  /\ run.pc = "idle"

\* C40: clearAll never destroys the blob of an item that is in the history
\* after the clear: whatever the interleaving of clearAll with a concurrent
\* ingest, once all in-flight messages are answered every item of the
\* history with pending = false and no error has its blobId resolvable in
\* the Blob Store.
C40_ClearKeepsBlobsOfLaterItems ==
  AllAnswered =>
    \A k \in DOMAIN items :
      (HasBlobId(items[k]) /\ ~IsPending(items[k]) /\ ~HasError(items[k]))
        => items[k].blobId \in DOMAIN blobStore

====
